---------------------------- MODULE Spec2Model ----------------------------
(***************************************************************************)
(* hostdetail: the IP resolution and enrichment pipeline of src/index.js   *)
(* (the root route app.get("/"), the Redis cache adapter, the reverse-DNS  *)
(* and geolocation resolvers and their cache-aside wrappers).              *)
(*                                                                         *)
(* Text is modelled as a sequence of one-character strings, a JavaScript   *)
(* value as a record [t |-> type, s |-> payload].  JavaScript runs one     *)
(* handler segment at a time: an action of the model is the completion of  *)
(* one awaited I/O operation together with the code that runs after it up  *)
(* to the next awaited I/O operation.                                      *)
(***************************************************************************)
EXTENDS Naturals, Sequences, FiniteSets, TLC

(***************************************************************************)
(* JavaScript values                                                       *)
(***************************************************************************)
Undefined == [t |-> "undefined", s |-> <<>>]
Null == [t |-> "null", s |-> <<>>]
Str(s) == [t |-> "string", s |-> s]
\* An object with the fields status and country (the geolocation body).
Obj(status, country) == [t |-> "object", s |-> <<status, country>>]
True == [t |-> "boolean", s |-> <<"true">>]
False == [t |-> "boolean", s |-> <<"false">>]

\* JavaScript truthiness: undefined, null and "" are falsy, any other
\* string and every object is truthy.
Truthy(v) == \/ v.t = "object"
             \/ (v.t = "string" /\ v.s # <<>>)
             \/ v = True

\* a || b
Or(a, b) == IF Truthy(a) THEN a ELSE b

(***************************************************************************)
(* String.prototype helpers used by the IP header loop                     *)
(***************************************************************************)
WhiteSpace == {" ", "\t"}

RECURSIVE SplitFirst(_)
\* s.split(',')[0]: the text before the first comma.
SplitFirst(s) ==
    IF s = <<>> \/ Head(s) = "," THEN <<>>
    ELSE <<Head(s)>> \o SplitFirst(Tail(s))

RECURSIVE TrimLeft(_)
TrimLeft(s) ==
    IF s # <<>> /\ Head(s) \in WhiteSpace THEN TrimLeft(Tail(s)) ELSE s

RECURSIVE TrimRight(_)
TrimRight(s) ==
    IF s # <<>> /\ s[Len(s)] \in WhiteSpace
    THEN TrimRight(SubSeq(s, 1, Len(s) - 1))
    ELSE s

\* s.trim()
Trim(s) == TrimRight(TrimLeft(s))

\* s.startsWith("\\")
StartsWithBackslash(s) == s # <<>> /\ Head(s) = "\\"

\* s.slice(1)
Slice1(s) == IF s = <<>> THEN <<>> ELSE Tail(s)

(***************************************************************************)
(* Decimal numerals                                                        *)
(***************************************************************************)
Digits == {"0", "1", "2", "3", "4", "5", "6", "7", "8", "9"}

DigitValue(c) ==
    CASE c = "0" -> 0 [] c = "1" -> 1 [] c = "2" -> 2 [] c = "3" -> 3
      [] c = "4" -> 4 [] c = "5" -> 5 [] c = "6" -> 6 [] c = "7" -> 7
      [] c = "8" -> 8 [] c = "9" -> 9

RECURSIVE DecimalValue(_)
DecimalValue(p) ==
    IF p = <<>> THEN 0
    ELSE 10 * DecimalValue(SubSeq(p, 1, Len(p) - 1)) + DigitValue(p[Len(p)])

RECURSIVE LeadingDigits(_)
LeadingDigits(s) ==
    IF s # <<>> /\ Head(s) \in Digits
    THEN <<Head(s)>> \o LeadingDigits(Tail(s))
    ELSE <<>>

\* parseInt(text) for a text that starts with a decimal digit: the value of
\* its leading digits; what follows them is ignored.
ParseInt(text) == DecimalValue(LeadingDigits(text))

(***************************************************************************)
(* The IP header loop of the root route                                    *)
(***************************************************************************)
ipHeaders == << "x-forwarded-for", "x-real-ip", "x-client-ip",
                "cf-connecting-ip", "x-forwarded", "forwarded-for",
                "x-cluster-client-ip" >>

\* The body of the loop with the x-forwarded-for value not trimmed.
NormalizeHeaderNoTrim(header, headerValue) ==
    IF header = "x-forwarded-for"
    THEN Str(SplitFirst(headerValue.s))
    ELSE IF header = "x-real-ip" /\ StartsWithBackslash(headerValue.s)
         THEN Str(Slice1(headerValue.s))
         ELSE headerValue

\* The body of the loop with the backslash rule applied to every header
\* but x-forwarded-for.
NormalizeHeaderAllEscaped(header, headerValue) ==
    IF header = "x-forwarded-for"
    THEN Str(Trim(SplitFirst(headerValue.s)))
    ELSE IF StartsWithBackslash(headerValue.s)
         THEN Str(Slice1(headerValue.s))
         ELSE headerValue

\* The body of the loop for a header whose value is truthy.
NormalizeHeader(header, headerValue) ==
    IF header = "x-forwarded-for"
    THEN Str(Trim(SplitFirst(headerValue.s)))
    ELSE IF header = "x-real-ip" /\ StartsWithBackslash(headerValue.s)
         THEN Str(Slice1(headerValue.s))
         ELSE headerValue

\* if (headerValue): the loop takes the first header whose value is truthy.
HeaderTaken(headerValue) == Truthy(headerValue)

RECURSIVE IpLoopLast(_, _)
\* The loop without its break: the last header with a truthy value wins.
IpLoopLast(headers, i) ==
    IF i > Len(ipHeaders) THEN [ip |-> Null, ipSource |-> "null"]
    ELSE LET rest == IpLoopLast(headers, i + 1) IN
         IF rest.ipSource # "null" THEN rest
         ELSE IF Truthy(headers[ipHeaders[i]])
              THEN [ip |-> NormalizeHeader(ipHeaders[i], headers[ipHeaders[i]]),
                    ipSource |-> ipHeaders[i]]
              ELSE rest

RECURSIVE IpLoop(_, _)
\* for (const header of ipHeaders) { ... break; }
IpLoop(headers, i) ==
    IF i > Len(ipHeaders) THEN [ip |-> Null, ipSource |-> "null"]
    ELSE IF HeaderTaken(headers[ipHeaders[i]])
         THEN [ip |-> NormalizeHeader(ipHeaders[i], headers[ipHeaders[i]]),
               ipSource |-> ipHeaders[i]]
         ELSE IpLoop(headers, i + 1)

\* The fallback to the peer socket address without its source tag.
ExtractIpKeepSource(headers, remoteAddress) ==
    LET found == IpLoop(headers, 1) IN
    IF ~Truthy(found.ip)
    THEN [ip |-> Or(remoteAddress, remoteAddress), ipSource |-> found.ipSource]
    ELSE found

\* The loop followed by the fallback to the peer socket address.
\* req.connection is req.socket, so both operands of || read the same value.
ExtractIp(headers, remoteAddress) ==
    LET found == IpLoop(headers, 1) IN
    IF ~Truthy(found.ip)
    THEN [ip |-> Or(remoteAddress, remoteAddress), ipSource |-> "connection"]
    ELSE found

(***************************************************************************)
(* JSON.stringify / JSON.parse on the values the pipeline caches           *)
(***************************************************************************)
Quote == "\""

\* JSON.stringify(value): a string becomes the quoted text, an object the
\* braces around its fields.
Stringify(v) ==
    IF v.t = "string" THEN <<Quote>> \o v.s \o <<Quote>>
    ELSE IF v.t = "object" THEN <<"{">> \o v.s \o <<"}">>
    ELSE <<"null">>

NoQuoteIn(s) == \A i \in 1..Len(s) : s[i] # Quote

\* JSON.parse(text): [ok |-> FALSE] stands for the SyntaxError it throws.
Parse(text) ==
    IF text = <<"null">> THEN [ok |-> TRUE, v |-> Null]
    ELSE IF /\ Len(text) >= 2
            /\ text[1] = Quote
            /\ text[Len(text)] = Quote
            /\ NoQuoteIn(SubSeq(text, 2, Len(text) - 1))
         THEN [ok |-> TRUE, v |-> Str(SubSeq(text, 2, Len(text) - 1))]
    ELSE IF Len(text) = 4 /\ text[1] = "{" /\ text[4] = "}"
         THEN [ok |-> TRUE, v |-> Obj(text[2], text[3])]
    ELSE [ok |-> FALSE, v |-> Undefined]

(***************************************************************************)
(* Completions of a function call: a returned value or a thrown error      *)
(***************************************************************************)
Return(v) == [k |-> "return", v |-> v]
Throw(name) == [k |-> "throw", v |-> Str(<<name>>)]

(***************************************************************************)
(* Cache keys and the cache configuration                                  *)
(***************************************************************************)
\* The DNS key without the address: one key for every client.
DnsKeyShared(ip) == <<"d", "n", "s", ":">>

\* `dns:${ip}`
DnsKey(ip) == <<"d", "n", "s", ":">> \o ip.s
\* The geolocation key built with the prefix of the DNS keys.
GeoKeyDnsPrefix(ip) == <<"d", "n", "s", ":">> \o ip.s

\* `geo:${ip}`
GeoKey(ip) == <<"g", "e", "o", ":">> \o ip.s

SecondsPerDay == 24 * 60 * 60
DefaultTtlDays == <<"3", "0">>

\* CACHE_TTL with the geolocation TTL read from a setting of its own, which
\* is not set.
CacheTtlPerNamespace(days) ==
    [DNS |-> ParseInt(Or(days, Str(DefaultTtlDays)).s) * SecondsPerDay,
     GEO |-> ParseInt(Or(Undefined, Str(DefaultTtlDays)).s) * SecondsPerDay]

\* const CACHE_TTL = { DNS: ..., GEO: ... } for a value of
\* process.env.CACHE_TTL_DAYS: both fields are
\* parseInt(process.env.CACHE_TTL_DAYS || '30') * 24 * 60 * 60.
CacheTtl(days) ==
    [DNS |-> ParseInt(Or(days, Str(DefaultTtlDays)).s) * SecondsPerDay,
     GEO |-> ParseInt(Or(days, Str(DefaultTtlDays)).s) * SecondsPerDay]

(***************************************************************************)
(* State                                                                   *)
(***************************************************************************)
VARIABLES
    req,          \* the requests to the root route, by slot
    store,        \* the content of the Redis store, by key
    isReady,      \* redisClient.isReady
    user_agents,  \* the process-wide tally
    prev,         \* what the request that last left a slot returned
    everReady,    \* whether the store has ever been ready
    CACHE_TTL_DAYS,  \* process.env.CACHE_TTL_DAYS
    handled,      \* the user agents of the requests that ran the tally step
    reported      \* the aggregate the last read-only route or timer logged

vars == <<req, store, isReady, user_agents, prev, everReady, CACHE_TTL_DAYS,
          handled, reported>>

\* parseInt(process.env.CACHE_TTL_DAYS || '30')
CacheTtlDays == ParseInt(Or(CACHE_TTL_DAYS, Str(DefaultTtlDays)).s)
\* CACHE_TTL.DNS and CACHE_TTL.GEO
CACHE_TTL_DNS == CacheTtl(CACHE_TTL_DAYS).DNS
CACHE_TTL_GEO == CacheTtl(CACHE_TTL_DAYS).GEO

\* Request headers named like the fields the handler computes.  Node hands
\* header names to the handler in lower case.
EchoNames == {"ip", "geolocation", "reverselookup", "currentts", "debug"}

HeaderNames ==
    {ipHeaders[i] : i \in 1..Len(ipHeaders)} \cup {"user-agent"} \cup EchoNames
NoHeaders == [h \in HeaderNames |-> Undefined]

\* No resolver call made (yet).
NoCall == [k |-> "none", v |-> Undefined]

\* dns.reverse has not called back (yet).
NoAnswer == [err |-> FALSE, address |-> <<"none">>]

\* No response sent.
NoResponse ==
    [format |-> "none", ip |-> Undefined, reverseLookup |-> Undefined,
     geolocation |-> Undefined, currentTs |-> Undefined, headers |-> NoHeaders,
     debug |-> [message |-> <<>>, allHeaders |-> NoHeaders,
                remoteAddress |-> Undefined, socketRemoteAddress |-> Undefined]]

\* A request slot before a request arrives.  isBrowser is the constant of
\* that name of the handler.  dpc and gpc are the awaits the
\* DNS stream and the geolocation stream are suspended at.  dnsCached and
\* geoCached are what getFromCache returned, dnsSet and geoSet what setCache
\* returned (the constants named cached of the two wrappers).  The
\* counters count the SETEX commands and the resolver calls the request
\* issued.  dnsAnswer is what dns.reverse passed to its callback.
IdleReq ==
    [pc |-> "idle", dpc |-> "idle", gpc |-> "idle",
     headers |-> NoHeaders, remoteAddress |-> Undefined,
     ip |-> Null, ipSource |-> "null",
     reverseLookup |-> Undefined, geolocation |-> Null,
     dnsCached |-> Undefined, geoCached |-> Undefined,
     dnsResult |-> Undefined, geoResult |-> Undefined,
     dnsSet |-> Undefined, geoSet |-> Undefined,
     dnsCalls |-> 0, geoCalls |-> 0, dnsWrites |-> 0, geoWrites |-> 0,
     dnsOut |-> NoCall, geoOut |-> NoCall, dnsAnswer |-> NoAnswer,
     responseOk |-> Undefined, data |-> Undefined,
     timer |-> "unset", deadlinePassed |-> FALSE, geoLate |-> FALSE,
     clean |-> FALSE, isBrowser |-> Undefined, response |-> NoResponse]

NoEntry == [present |-> FALSE, text |-> <<>>, ttl |-> 0]
Entry(text, ttl) == [present |-> TRUE, text |-> text, ttl |-> ttl]

(***************************************************************************)
(* isBrowserRequest                                                        *)
(***************************************************************************)
Lower(c) ==
    CASE c = "A" -> "a" [] c = "B" -> "b" [] c = "C" -> "c" [] c = "D" -> "d"
      [] c = "E" -> "e" [] c = "F" -> "f" [] c = "G" -> "g" [] c = "H" -> "h"
      [] c = "I" -> "i" [] c = "J" -> "j" [] c = "K" -> "k" [] c = "L" -> "l"
      [] c = "M" -> "m" [] c = "N" -> "n" [] c = "O" -> "o" [] c = "P" -> "p"
      [] c = "Q" -> "q" [] c = "R" -> "r" [] c = "S" -> "s" [] c = "T" -> "t"
      [] c = "U" -> "u" [] c = "V" -> "v" [] c = "W" -> "w" [] c = "X" -> "x"
      [] c = "Y" -> "y" [] c = "Z" -> "z"
      [] OTHER -> c

ToLower(s) == [i \in 1..Len(s) |-> Lower(s[i])]

\* /pattern/i.test(text) for a pattern of plain lower-case characters.
Matches(pattern, text) ==
    \E i \in 1..Len(text) :
        /\ i + Len(pattern) - 1 <= Len(text)
        /\ SubSeq(ToLower(text), i, i + Len(pattern) - 1) = pattern

browserPatterns ==
    { <<"m", "o", "z", "i", "l", "l", "a">>,
      <<"c", "h", "r", "o", "m", "e">>, <<"s", "a", "f", "a", "r", "i">>,
      <<"f", "i", "r", "e", "f", "o", "x">>, <<"e", "d", "g", "e">>,
      <<"o", "p", "e", "r", "a">>, <<"w", "e", "b", "k", "i", "t">> }

nonBrowserPatterns ==
    { <<"c", "u", "r", "l">>, <<"w", "g", "e", "t">>,
      <<"p", "y", "t", "h", "o", "n">>, <<"n", "o", "d", "e">>,
      <<"j", "a", "v", "a">>, <<"g", "o", "-", "h", "t", "t", "p">>,
      <<"p", "o", "s", "t", "m", "a", "n">>,
      <<"i", "n", "s", "o", "m", "n", "i", "a">>,
      <<"h", "t", "t", "p", "i", "e">>, <<"b", "o", "t">>,
      <<"s", "p", "i", "d", "e", "r">>,
      <<"c", "r", "a", "w", "l", "e", "r">> }

\* isBrowserRequest with the browser patterns tested first.
isBrowserRequestBrowserFirst(userAgent) ==
    IF ~Truthy(userAgent) THEN FALSE
    ELSE IF \E pattern \in browserPatterns : Matches(pattern, userAgent.s)
         THEN TRUE
         ELSE FALSE

\* isBrowserRequest(userAgent): no user agent is no browser; the excluded
\* agents are tested first.
isBrowserRequest(userAgent) ==
    IF ~Truthy(userAgent) THEN FALSE
    ELSE IF \E pattern \in nonBrowserPatterns : Matches(pattern, userAgent.s)
         THEN FALSE
         ELSE \E pattern \in browserPatterns : Matches(pattern, userAgent.s)

(***************************************************************************)
(* The response of the root route                                          *)
(***************************************************************************)
Unknown == <<"U", "n", "k", "n", "o", "w", "n">>
CouldNotDetermine == <<"Could not determine client IP">>

\* new Date()
Date == [t |-> "date", s |-> <<>>]

\* The diagnostic object of the handler.
Diagnostic(q) ==
    [message |-> CouldNotDetermine, allHeaders |-> q.headers,
     remoteAddress |-> q.remoteAddress,
     socketRemoteAddress |-> q.remoteAddress]

\* The response object with the headers spread after the computed fields:
\* a header named like a computed field replaces it.
ResponseObjectSpreadLast(q) ==
    [format |-> "json",
     ip |-> IF q.headers["ip"] # Undefined THEN q.headers["ip"] ELSE q.ip,
     reverseLookup |-> q.reverseLookup,
     geolocation |-> IF q.headers["geolocation"] # Undefined
                     THEN q.headers["geolocation"] ELSE q.geolocation,
     currentTs |-> Date,
     headers |-> [h \in HeaderNames |->
                     IF h \in {"ip", "geolocation"} THEN Undefined
                     ELSE q.headers[h]],
     debug |-> IF ~Truthy(q.ip) THEN Diagnostic(q) ELSE NoResponse.debug]

\* const response = { ...req.headers, currentTs, ip, reverseLookup,
\* geolocation }, and response.debug = {...} if (!ip).  The properties
\* written after the spread replace the headers of the same name, ip and
\* geolocation, and the assignment of debug replaces a header named debug;
\* headers keeps the headers that are still properties of the object.  A
\* field that is Undefined is one JSON.stringify leaves out of the body.
ResponseObject(q) ==
    [format |-> "json", ip |-> q.ip, reverseLookup |-> q.reverseLookup,
     geolocation |-> q.geolocation, currentTs |-> Date,
     headers |-> [h \in HeaderNames |->
                     IF \/ h \in {"ip", "geolocation"}
                        \/ h = "debug" /\ ~Truthy(q.ip)
                     THEN Undefined
                     ELSE q.headers[h]],
     debug |-> IF ~Truthy(q.ip) THEN Diagnostic(q) ELSE NoResponse.debug]

\* generateHTML(data): the page shows ip || 'Unknown', the reverse name and
\* the geolocation when they are truthy, and of the headers the user
\* agent, host, accept and connection; it reads nothing else of data.
generateHTML(data) ==
    [format |-> "html",
     ip |-> Or(data.ip, Str(Unknown)),
     reverseLookup |-> IF Truthy(data.reverseLookup) THEN data.reverseLookup
                       ELSE Undefined,
     geolocation |-> IF Truthy(data.geolocation) THEN data.geolocation
                     ELSE Undefined,
     currentTs |-> data.currentTs,
     headers |-> [h \in HeaderNames |->
                     IF h = "user-agent" THEN Or(data.headers[h], Str(Unknown))
                     ELSE Undefined],
     debug |-> NoResponse.debug]

\* The output selection with the JSON encoding for every client.
SendResponseJson(q) == ResponseObject(q)

\* The fields of the body sent: JSON.stringify leaves out a property
\* whose value is undefined and writes null for one that is null; the page
\* has a section for what generateHTML shows.  debug is there when set, by
\* the handler or as a header that is still a property.
BodyFields(response) ==
    {h \in HeaderNames : response.headers[h] # Undefined}
    \cup {"currentTs"}
    \cup (IF response.ip # Undefined THEN {"ip"} ELSE {})
    \cup (IF response.reverseLookup # Undefined THEN {"reverseLookup"} ELSE {})
    \cup (IF response.geolocation # Undefined THEN {"geolocation"} ELSE {})
    \cup (IF response.debug # NoResponse.debug THEN {"debug"} ELSE {})

\* if (isBrowser) res.send(generateHTML(response)) else res.json(response)
SendResponse(q) ==
    IF q.isBrowser = True
    THEN generateHTML(ResponseObject(q))
    ELSE ResponseObject(q)

(***************************************************************************)
(* The cache adapter                                                       *)
(***************************************************************************)
\* getFromCache without its readiness test: the GET is always issued.
getFromCacheAlways(ready) == TRUE

\* getFromCache: if (!redisClient.isReady) return null; otherwise a GET is
\* issued and awaited.
getFromCacheIssues(ready) == ready

\* getFromCache: what the awaited GET makes it return; a rejected command
\* is caught and null is returned.
getFromCacheValue(outcome, entry) ==
    IF outcome = "ok" /\ entry.present THEN Str(entry.text) ELSE Null

\* getFromCache without its catch block: a rejected GET is thrown on.
getFromCacheNoCatch(outcome, entry) ==
    IF outcome = "error" THEN Throw("Error")
    ELSE Return(getFromCacheValue(outcome, entry))

\* getFromCache as its caller sees it: it always returns.
getFromCache(outcome, entry) == Return(getFromCacheValue(outcome, entry))

\* setCache: if (!redisClient.isReady) return false; otherwise a SETEX of
\* JSON.stringify(value) is issued and awaited.
setCacheIssues(ready) == ready

\* setCache without its catch block: a rejected SETEX is thrown on.
setCacheNoCatch(outcome) ==
    IF outcome = "ok" THEN Return(True) ELSE Throw("Error")

\* setCache as its caller sees it once the SETEX settled: true when the
\* store accepted the write, false from the catch block.
setCache(outcome) == Return(IF outcome = "ok" THEN True ELSE False)

\* setCache without JSON.stringify: the raw text of the value is stored.
setCacheEntryRaw(value, ttl) == Entry(value.s, ttl)

\* setCache: the entry the store holds once it accepted the SETEX.
setCacheEntry(value, ttl) == Entry(Stringify(value), ttl)

(***************************************************************************)
(* The root route after the header loop: the two enrichment streams        *)
(***************************************************************************)
\* The response is built and sent (res.send / res.json).
FinishRequest(q) == [q EXCEPT !.pc = "sent", !.response = SendResponse(q)]

\* The geolocation await without its try/catch: a throw leaves the handler.
HandlerTryGeoNoCatch(q, c) ==
    IF c.k = "return" THEN [q EXCEPT !.geolocation = c.v, !.gpc = "done"]
    ELSE [q EXCEPT !.gpc = "done", !.pc = "raised"]

\* try { geolocation = await getGeolocationWithCache(ip); } catch (err) {}
HandlerTryGeo(q, c) ==
    IF c.k = "return" THEN [q EXCEPT !.geolocation = c.v, !.gpc = "done"]
    ELSE [q EXCEPT !.gpc = "done"]

\* The handler once the geolocation stream has completed with c: the
\* response follows when the DNS stream is over as well.
OnGeoDone(q, c) ==
    LET q1 == HandlerTryGeo(q, c) IN
    IF q1.pc = "raised" THEN q1
    ELSE IF q1.dpc = "done" THEN FinishRequest(q1)
    ELSE q1

\* getGeolocationWithCache after getGeolocation returned result:
\* if (result) { await setCache(...) } return result.
GeoWriteBack(q, result, ready) ==
    IF Truthy(result) /\ setCacheIssues(ready)
    THEN [q EXCEPT !.gpc = "set", !.geoResult = result, !.geoWrites = @ + 1]
    ELSE IF Truthy(result)
         THEN OnGeoDone([q EXCEPT !.geoSet = False], Return(result))
         ELSE OnGeoDone(q, Return(result))

\* getGeolocationWithCache once the awaited setCache completed with c.
GeoAfterSet(q, c) ==
    IF c.k = "throw" THEN OnGeoDone([q EXCEPT !.geoResult = Undefined], c)
    ELSE OnGeoDone([q EXCEPT !.geoSet = c.v, !.geoResult = Undefined],
                   Return(q.geoResult))

\* getGeolocation has completed with c (a record returned, or an error
\* thrown), and getGeolocationWithCache goes on.
GeoResolved(q, c, ready) ==
    LET q1 == [q EXCEPT !.geoOut = c, !.geoLate = q.deadlinePassed]
    IN IF c.k = "throw" THEN OnGeoDone(q1, c)
       ELSE GeoWriteBack(q1, c.v, ready)

\* getGeolocation up to its first await: the deadline timer is set and the
\* fetch is issued.
StartGetGeolocation(q) ==
    [q EXCEPT !.gpc = "fetch", !.timer = "armed", !.geoCalls = @ + 1,
              !.deadlinePassed = FALSE]

\* data.status on the parsed body: reading a property of null throws.
PropertyReadable(v) == v.t \notin {"null", "undefined"}

\* getGeolocation without its test of data.status.
JsonCompletionNoStatus(body) ==
    IF ~body.ok THEN Throw("SyntaxError")
    ELSE IF ~PropertyReadable(body.v) THEN Throw("TypeError")
    ELSE Return(body.v)

\* getGeolocation after response.json(): body is the outcome of parsing.
JsonCompletion(body) ==
    IF ~body.ok THEN Throw("SyntaxError")
    ELSE IF ~PropertyReadable(body.v) THEN Throw("TypeError")
    ELSE IF body.v.t = "object" /\ body.v.s[1] = "fail" THEN Throw("Error")
    ELSE Return(body.v)

\* getGeolocation once response.json() settled: data is the parsed body.
JsonSettled(q, body, ready) ==
    GeoResolved([q EXCEPT !.data = IF body.ok THEN body.v ELSE Undefined],
                JsonCompletion(body), ready)

\* The timer state after the fetch promise settled: clearTimeout(timeoutId)
\* runs right after the await, and again in the catch block.
TimerAfterFetch(timer) == IF timer = "armed" THEN "cleared" ELSE timer

\* getGeolocationWithCache, the cache-hit test: the try block parses the
\* text and reads result.country for the log; any throw falls to the miss.
GeoCacheHit(cached) ==
    /\ Truthy(cached)
    /\ Parse(cached.s).ok
    /\ PropertyReadable(Parse(cached.s).v)

\* getGeolocationWithCache returning the text read from the store as it
\* is, without JSON.parse.
GeoAfterGetRaw(q, cached, ready) ==
    LET q1 == [q EXCEPT !.geoCached = cached] IN
    IF GeoCacheHit(cached) THEN OnGeoDone(q1, Return(cached))
    ELSE StartGetGeolocation(q1)

\* getGeolocationWithCache once getFromCache returned cached.
GeoAfterGet(q, cached, ready) ==
    LET q1 == [q EXCEPT !.geoCached = cached] IN
    IF GeoCacheHit(cached) THEN OnGeoDone(q1, Return(Parse(cached.s).v))
    ELSE StartGetGeolocation(q1)

\* getGeolocationWithCache up to its first await.
StartGeoStream(q, ready) ==
    IF getFromCacheIssues(ready) THEN [q EXCEPT !.gpc = "get"]
    ELSE GeoAfterGet(q, Null, ready)

\* getGeolocationWithCache once the awaited getFromCache completed with c.
GeoAfterGetFromCache(q, c, ready) ==
    IF c.k = "throw" THEN OnGeoDone(q, c) ELSE GeoAfterGet(q, c.v, ready)

\* The DNS await without its try/catch: a throw leaves the handler.
HandlerTryDnsNoCatch(q, c) ==
    IF c.k = "return" THEN [q EXCEPT !.reverseLookup = c.v, !.dpc = "done"]
    ELSE [q EXCEPT !.dpc = "done", !.pc = "raised"]

\* try { reverseLookup = await reverseDnsWithCache(ip); } catch (err) {}
HandlerTryDns(q, c) ==
    IF c.k = "return" THEN [q EXCEPT !.reverseLookup = c.v, !.dpc = "done"]
    ELSE [q EXCEPT !.dpc = "done"]

\* The handler answering as soon as the DNS stream has completed, the
\* geolocation stream being started and left behind.
OnDnsDoneRespond(q, c, ready) ==
    LET q1 == HandlerTryDns(q, c) IN
    IF q1.gpc = "idle" THEN FinishRequest(StartGeoStream(q1, ready))
    ELSE FinishRequest(q1)

\* The handler once the DNS stream has completed with c: the geolocation
\* stream is started only now, after the first try/catch statement.
OnDnsDone(q, c, ready) ==
    LET q1 == HandlerTryDns(q, c) IN
    IF q1.pc = "raised" THEN q1
    ELSE IF q1.gpc = "idle" THEN StartGeoStream(q1, ready)
    ELSE IF q1.gpc = "done" THEN FinishRequest(q1)
    ELSE q1

\* reverseDnsWithCache without its write-back.
DnsWriteBackNever(q, result, ready) == OnDnsDone(q, Return(result), ready)

\* reverseDnsWithCache writing back whatever reverseDns returned, without
\* the test of result.
DnsWriteBackAlways(q, result, ready) ==
    IF setCacheIssues(ready)
    THEN [q EXCEPT !.dpc = "set", !.dnsResult = result, !.dnsWrites = @ + 1]
    ELSE OnDnsDone([q EXCEPT !.dnsSet = False], Return(result), ready)

\* reverseDnsWithCache after reverseDns returned result:
\* if (result) { await setCache(...) } return result.
DnsWriteBack(q, result, ready) ==
    IF Truthy(result) /\ setCacheIssues(ready)
    THEN [q EXCEPT !.dpc = "set", !.dnsResult = result, !.dnsWrites = @ + 1]
    ELSE IF Truthy(result)
         THEN OnDnsDone([q EXCEPT !.dnsSet = False], Return(result), ready)
         ELSE OnDnsDone(q, Return(result), ready)

\* reverseDnsWithCache once the awaited setCache completed with c.
DnsAfterSet(q, c, ready) ==
    IF c.k = "throw" THEN OnDnsDone([q EXCEPT !.dnsResult = Undefined], c, ready)
    ELSE OnDnsDone([q EXCEPT !.dnsSet = c.v, !.dnsResult = Undefined],
                   Return(q.dnsResult), ready)

\* reverseDns resolving with the last name of the list.
reverseDnsLast(answer) ==
    IF answer.err THEN Throw("Error")
    ELSE IF answer.address = <<>> THEN Return(Undefined)
    ELSE Return(Str(answer.address[Len(answer.address)]))

\* reverseDns: the dns.reverse callback rejects on err and resolves with
\* address[0] otherwise (undefined for an empty list).
reverseDns(answer) ==
    IF answer.err THEN Throw("Error")
    ELSE IF answer.address = <<>> THEN Return(Undefined)
    ELSE Return(Str(answer.address[1]))

\* reverseDnsWithCache calling reverseDns again when it failed, up to three
\* calls.
DnsResolvedRetry(q, c, ready) ==
    LET q1 == [q EXCEPT !.dnsOut = c] IN
    IF c.k = "throw" /\ q.dnsCalls < 3
    THEN [q EXCEPT !.dpc = "reverse", !.dnsCalls = @ + 1]
    ELSE IF c.k = "throw" THEN OnDnsDone(q1, c, ready)
    ELSE DnsWriteBack(q1, c.v, ready)

\* reverseDns has completed with c and reverseDnsWithCache goes on.
DnsResolved(q, c, ready) ==
    LET q1 == [q EXCEPT !.dnsOut = c] IN
    IF c.k = "throw" THEN OnDnsDone(q1, c, ready)
    ELSE DnsWriteBack(q1, c.v, ready)

\* reverseDnsWithCache, the cache-hit test: the try block only parses.
DnsCacheHit(cached) == Truthy(cached) /\ Parse(cached.s).ok

\* reverseDnsWithCache with the catch around JSON.parse throwing on: a
\* malformed entry ends the lookup with an error.
DnsAfterGetAbort(q, cached, ready) ==
    LET q1 == [q EXCEPT !.dnsCached = cached] IN
    IF DnsCacheHit(cached) THEN OnDnsDone(q1, Return(Parse(cached.s).v), ready)
    ELSE IF Truthy(cached) THEN OnDnsDone(q1, Throw("SyntaxError"), ready)
    ELSE [q1 EXCEPT !.dpc = "reverse", !.dnsCalls = @ + 1]

\* reverseDnsWithCache once getFromCache returned cached.
DnsAfterGet(q, cached, ready) ==
    LET q1 == [q EXCEPT !.dnsCached = cached] IN
    IF DnsCacheHit(cached) THEN OnDnsDone(q1, Return(Parse(cached.s).v), ready)
    ELSE [q1 EXCEPT !.dpc = "reverse", !.dnsCalls = @ + 1]

\* reverseDnsWithCache up to its first await.
StartDnsStream(q, ready) ==
    IF getFromCacheIssues(ready) THEN [q EXCEPT !.dpc = "get"]
    ELSE DnsAfterGet(q, Null, ready)

\* reverseDnsWithCache once the awaited getFromCache completed with c.
DnsAfterGetFromCache(q, c, ready) ==
    IF c.k = "throw" THEN OnDnsDone(q, c, ready) ELSE DnsAfterGet(q, c.v, ready)

\* The enrichment block entered by command-line clients only: a browser is
\* answered at once.
StartEnrichmentUnlessBrowser(q, ready) ==
    IF q.isBrowser = True THEN FinishRequest(q) ELSE StartDnsStream(q, ready)

\* Both streams started together (Promise.all over the two lookups).
StartEnrichmentBoth(q, ready) ==
    StartGeoStream(StartDnsStream(q, ready), ready)

\* if (ip) { ... }: the enrichment block starts with the DNS stream alone.
StartEnrichment(q, ready) == StartDnsStream(q, ready)

(***************************************************************************)
(* The tally                                                               *)
(***************************************************************************)
\* `${undefined}`: the property key of a request without a user agent.
UndefinedText == <<"u", "n", "d", "e", "f", "i", "n", "e", "d">>

\* The property key a user-agent value is converted to.
TallyKey(ua) == IF ua.t = "string" THEN ua.s ELSE UndefinedText

\* What reading a property of user_agents yields: undefined (no such
\* property), a number, NaN, or a function or object that is no count.
Missing == [k |-> "undefined", n |-> 0]
Count(n) == [k |-> "number", n |-> n]
NaN == [k |-> "NaN", n |-> 0]
Inherited == [k |-> "object", n |-> 0]

Constructor == <<"c", "o", "n", "s", "t", "r", "u", "c", "t", "o", "r">>
Proto == <<"_", "_", "p", "r", "o", "t", "o", "_", "_">>

\* let user_agents = {}: a plain object inherits these names, among others,
\* from Object.prototype.
ObjectPrototypeKeys ==
    { Constructor, Proto,
      <<"t", "o", "S", "t", "r", "i", "n", "g">>,
      <<"v", "a", "l", "u", "e", "O", "f">>,
      <<"h", "a", "s", "O", "w", "n", "P", "r", "o", "p", "e", "r", "t", "y">> }

\* !value
TallyFalsy(v) == v = Missing \/ v = Count(0) \/ v = NaN

\* user_agents[key] read: the own property when there is one, else what
\* Object.prototype holds under the name; __proto__ is an accessor that
\* yields the prototype object.
TallyGet(tally, key) ==
    IF key = Proto THEN Inherited
    ELSE IF tally[key] # Missing THEN tally[key]
    ELSE IF key \in ObjectPrototypeKeys THEN Inherited
    ELSE Missing

\* user_agents[key] = value for a number: an own property is created or
\* overwritten; the __proto__ accessor ignores a value that is no object.
TallyPut(tally, key, value) ==
    IF key = Proto THEN tally ELSE [tally EXCEPT ![key] = value]

\* value++ stores ToNumber(value) + 1: NaN for what is no number.
Increment(v) == IF v.k = "number" THEN Count(v.n + 1) ELSE NaN

\* if (!user_agents[ua]) user_agents[ua] = 0; user_agents[ua]++;
TallyStep(tally, ua) ==
    LET key == TallyKey(ua)
        zeroed == IF TallyFalsy(TallyGet(tally, key))
                  THEN TallyPut(tally, key, Count(0))
                  ELSE tally
    IN TallyPut(zeroed, key, Increment(TallyGet(zeroed, key)))

\* Object.keys(user_agents): the names of the own properties.
TallyKeys(tally) == {key \in DOMAIN tally : tally[key] # Missing}

RECURSIVE SumOver(_, _)
SumOver(f, S) ==
    IF S = {} THEN 0
    ELSE LET x == CHOOSE y \in S : TRUE IN f[x] + SumOver(f, S \ {x})

\* Object.values(user_agents).reduce((sum, count) => sum + count, 0): NaN
\* once a value is NaN.
TallyTotal(tally) ==
    IF \E key \in TallyKeys(tally) : tally[key] = NaN THEN NaN
    ELSE Count(SumOver([key \in TallyKeys(tally) |-> tally[key].n],
                       TallyKeys(tally)))

\* The root route from its first line to the first await of the request.
HandleRoot(headers, remoteAddress, ready) ==
    LET ext == ExtractIp(headers, remoteAddress)
        q == [IdleReq EXCEPT !.pc = "running",
                             !.headers = headers,
                             !.remoteAddress = remoteAddress,
                             !.ip = ext.ip,
                             !.ipSource = ext.ipSource,
                             !.isBrowser =
                                 IF isBrowserRequest(headers["user-agent"])
                                 THEN True ELSE False,
                             !.clean = ready]
    IN IF Truthy(ext.ip) THEN StartEnrichment(q, ready) ELSE FinishRequest(q)

(***************************************************************************)
(* getGeolocation: the settled fetch and the catch block                   *)
(***************************************************************************)
\* catch (error): an AbortError becomes the timeout error, any other error
\* is thrown again.
GeoCatch(errorName) ==
    IF errorName = "AbortError" THEN Throw("Timeout") ELSE Throw(errorName)

\* getGeolocation once the fetch promise settled: a rejected fetch and a
\* response that is not ok both end in the catch block; an ok response is
\* followed by await response.json().
FetchCompletion(q, outcome, ready) ==
    LET q1 == [q EXCEPT !.timer = TimerAfterFetch(@),
                        !.responseOk = IF outcome = "ok" THEN True
                                       ELSE IF outcome = "notok" THEN False
                                       ELSE @] IN
    IF outcome = "ok" THEN [q1 EXCEPT !.gpc = "json"]
    ELSE IF outcome = "notok" THEN GeoResolved(q1, GeoCatch("Error"), ready)
    ELSE GeoResolved(q1, GeoCatch("TypeError"), ready)

\* The 2000 ms since the call started are over.  A timer that is still set
\* fires: controller.abort() rejects the pending await with an AbortError.
\* A cleared timer does nothing.
DeadlineCompletion(q, ready) ==
    IF q.timer = "armed"
    THEN [GeoResolved([q EXCEPT !.timer = "fired"], GeoCatch("AbortError"), ready)
             EXCEPT !.deadlinePassed = TRUE]
    ELSE [q EXCEPT !.deadlinePassed = TRUE]

(***************************************************************************)
(* Inputs                                                                  *)
(***************************************************************************)
MaxRequests == 2
MaxSlots == 2

Slots == 1..MaxSlots

IpA == <<"1", ".", "1", ".", "1", ".", "1">>
IpB == <<"2", ".", "2", ".", "2", ".", "2">>
IpChain == IpA \o <<",", " ">> \o IpB
Curl == <<"c", "u", "r", "l">>
Mozilla == <<"M", "o", "z", "i", "l", "l", "a">>

HostA == <<"a", ".", "x">>
HostB == <<"b", ".", "x">>
HostC == <<"c", ".", "x">>

GeoSG == Obj("success", "SG")
GeoUS == Obj("success", "US")
GeoJP == Obj("success", "JP")
GeoFail == Obj("fail", "invalid query")

Malformed == <<"{">>

\* A request through a proxy chain, which yields IpA.
InputA == [headers |-> [NoHeaders EXCEPT !["x-forwarded-for"] = Str(IpChain),
                                         !["user-agent"] = Str(Curl)],
           remoteAddress |-> Str(IpB)]
\* A request with an escaped x-real-ip, which yields IpB.
InputB == [headers |-> [NoHeaders EXCEPT !["x-real-ip"] = Str(<<"\\">> \o IpB),
                                         !["user-agent"] = Str(Curl)],
           remoteAddress |-> Str(IpA)]
\* A request with no IP header and no peer address.
InputNone == [headers |-> [NoHeaders EXCEPT !["user-agent"] = Str(Curl)],
              remoteAddress |-> Undefined]

\* The requests of the one-at-a-time specification.
SeqInputs == {InputA, InputB, InputNone}

CacheIps == {Str(IpA), Str(IpB)}
CacheKeys == {DnsKey(ip) : ip \in CacheIps} \cup {GeoKey(ip) : ip \in CacheIps}

\* What the store may hold under the keys of IpA when the process starts:
\* nothing, an entry written earlier, text that is no JSON, the text null.
DnsSeeds == {NoEntry, Entry(Stringify(Str(HostC)), 0), Entry(Malformed, 0),
             Entry(<<"null">>, 0)}
GeoSeeds == {NoEntry, Entry(Stringify(GeoJP), 0), Entry(Malformed, 0),
             Entry(<<"null">>, 0)}

\* What the backends may answer.
DnsAnswers == { [err |-> TRUE, address |-> <<>>],
                [err |-> FALSE, address |-> <<>>],
                [err |-> FALSE, address |-> <<HostA, HostB>>],
                [err |-> FALSE, address |-> <<HostB>>] }
FetchOutcomes == {"ok", "notok", "neterror"}
JsonBodies == { [ok |-> TRUE, v |-> GeoSG], [ok |-> TRUE, v |-> GeoUS],
                [ok |-> TRUE, v |-> GeoFail], [ok |-> TRUE, v |-> Null],
                [ok |-> FALSE, v |-> Undefined] }
CacheOutcomes == {"ok", "error"}

\* User agents: a command-line client, a browser, a browser's name in a
\* crawler's, a browser's name in capitals, a text no pattern matches, a
\* browser's name after a command-line client's, a browser's name inside a
\* word, two names of Object.prototype, the text undefined.
MozillaBot == Mozilla \o <<" ", "b", "o", "t">>
Opera == <<"O", "P", "E", "R", "A">>
Other == <<"x">>
CurlChrome == Curl \o <<" ", "C", "h", "r", "o", "m", "e">>
InnerEdge == <<"x", "E", "d", "g", "e", "x">>
UaChoices == {Undefined, Str(<<>>), Str(Curl), Str(Mozilla), Str(MozillaBot),
              Str(Opera), Str(Other), Str(CurlChrome), Str(InnerEdge),
              Str(Constructor), Str(Proto), Str(UndefinedText)}

UaKeys == {TallyKey(ua) : ua \in UaChoices}

\* The number of requests that have run the tally step.
HandledTotal == SumOver(handled, UaChoices)

\* Nothing logged yet by a read-only route or the timer.
NoReport == [route |-> "none", unique |-> 0, total |-> Count(0)]

NoPrev == [valid |-> FALSE, ip |-> Null, reverseLookup |-> Undefined,
           geolocation |-> Null]

\* What is remembered of a request once its slot takes the next one: the
\* enrichment it returned, if it ran with a working cache throughout and
\* obtained both a reverse name and a geolocation record.
Summary(q) ==
    IF q.clean /\ Truthy(q.reverseLookup) /\ Truthy(q.geolocation)
    THEN [valid |-> TRUE, ip |-> q.ip, reverseLookup |-> q.reverseLookup,
          geolocation |-> q.geolocation]
    ELSE NoPrev

\* A store fault (not ready, a failed command, an expired entry) ends the
\* "working cache" period of every request it overlaps.
Dirty(reqs) == [r \in DOMAIN reqs |-> [reqs[r] EXCEPT !.clean = FALSE]]

(***************************************************************************)
(* Initial state                                                           *)
(***************************************************************************)
Init ==
    /\ req = [r \in Slots |-> IdleReq]
    /\ \E d \in DnsSeeds, g \in GeoSeeds :
          store = [k \in CacheKeys |->
                      IF k = DnsKey(Str(IpA)) THEN d
                      ELSE IF k = GeoKey(Str(IpA)) THEN g
                      ELSE NoEntry]
    /\ isReady = FALSE
    /\ user_agents = [u \in UaKeys |-> Missing]
    /\ prev = NoPrev
    /\ everReady = FALSE
    /\ CACHE_TTL_DAYS = Undefined
    /\ handled = [ua \in UaChoices |-> 0]
    /\ reported = NoReport

(***************************************************************************)
(* Actions: a request arrives, an awaited operation completes             *)
(***************************************************************************)
\* GET / arrives at slot r: the handler runs to its first await.
Arrive(r, input) ==
    /\ req[r].pc \in {"idle", "sent"}
    /\ HandledTotal < MaxRequests
    /\ req' = [req EXCEPT ![r] =
                  HandleRoot(input.headers, input.remoteAddress, isReady)]
    /\ user_agents' = TallyStep(user_agents, input.headers["user-agent"])
    /\ handled' = [handled EXCEPT ![input.headers["user-agent"]] = @ + 1]
    /\ prev' = IF req[r].pc = "sent" THEN Summary(req[r]) ELSE prev
    /\ UNCHANGED <<store, isReady, everReady, CACHE_TTL_DAYS, reported>>

\* The GET of dns:<ip> completes (outcome "error": the command is rejected).
DnsGetReply(r, outcome) ==
    /\ req[r].pc = "running" /\ req[r].dpc = "get"
    /\ LET q == [req[r] EXCEPT !.clean = @ /\ outcome = "ok"]
           c == getFromCache(outcome, store[DnsKey(q.ip)])
           reqs == IF outcome = "ok" THEN req ELSE Dirty(req)
       IN req' = [reqs EXCEPT ![r] = DnsAfterGetFromCache(q, c, isReady)]
    /\ prev' = IF outcome = "ok" THEN prev ELSE NoPrev
    /\ UNCHANGED <<store, isReady, user_agents, everReady, CACHE_TTL_DAYS, handled, reported>>

\* The dns.reverse callback runs.
DnsReply(r, answer) ==
    /\ req[r].pc = "running" /\ req[r].dpc = "reverse"
    /\ req' = [req EXCEPT ![r] =
                  DnsResolved([req[r] EXCEPT !.dnsAnswer = answer],
                              reverseDns(answer), isReady)]
    /\ UNCHANGED <<store, isReady, user_agents, prev, everReady, CACHE_TTL_DAYS, handled, reported>>

\* The write of dns:<ip> appending to the entry the store holds (APPEND) in
\* place of replacing it (SETEX).
DnsSetReplyAppend(r, outcome) ==
    /\ req[r].pc = "running" /\ req[r].dpc = "set"
    /\ LET q == [req[r] EXCEPT !.clean = @ /\ outcome = "ok"]
           reqs == IF outcome = "ok" THEN req ELSE Dirty(req)
       IN req' = [reqs EXCEPT ![r] = DnsAfterSet(q, setCache(outcome), isReady)]
    /\ store' = IF outcome = "ok"
                THEN [store EXCEPT ![DnsKey(req[r].ip)] =
                         Entry(@.text \o Stringify(req[r].dnsResult),
                               CACHE_TTL_DNS)]
                ELSE store
    /\ prev' = IF outcome = "ok" THEN prev ELSE NoPrev
    /\ UNCHANGED <<isReady, user_agents, everReady, CACHE_TTL_DAYS, handled,
                   reported>>

\* The SETEX of dns:<ip> completes: accepted by the store, or rejected.
DnsSetReply(r, outcome) ==
    /\ req[r].pc = "running" /\ req[r].dpc = "set"
    /\ LET q == [req[r] EXCEPT !.clean = @ /\ outcome = "ok"]
           reqs == IF outcome = "ok" THEN req ELSE Dirty(req)
       IN req' = [reqs EXCEPT ![r] = DnsAfterSet(q, setCache(outcome), isReady)]
    /\ store' = IF outcome = "ok"
                THEN [store EXCEPT ![DnsKey(req[r].ip)] =
                         setCacheEntry(req[r].dnsResult, CACHE_TTL_DNS)]
                ELSE store
    /\ prev' = IF outcome = "ok" THEN prev ELSE NoPrev
    /\ UNCHANGED <<isReady, user_agents, everReady, CACHE_TTL_DAYS, handled, reported>>

\* The GET of geo:<ip> completes.
GeoGetReply(r, outcome) ==
    /\ req[r].pc = "running" /\ req[r].gpc = "get"
    /\ LET q == [req[r] EXCEPT !.clean = @ /\ outcome = "ok"]
           c == getFromCache(outcome, store[GeoKey(q.ip)])
           reqs == IF outcome = "ok" THEN req ELSE Dirty(req)
       IN req' = [reqs EXCEPT ![r] = GeoAfterGetFromCache(q, c, isReady)]
    /\ prev' = IF outcome = "ok" THEN prev ELSE NoPrev
    /\ UNCHANGED <<store, isReady, user_agents, everReady, CACHE_TTL_DAYS, handled, reported>>

\* The fetch promise settles: response headers arrive, or the call fails.
FetchReply(r, outcome) ==
    /\ req[r].pc = "running" /\ req[r].gpc = "fetch"
    /\ req' = [req EXCEPT ![r] = FetchCompletion(req[r], outcome, isReady)]
    /\ UNCHANGED <<store, isReady, user_agents, prev, everReady, CACHE_TTL_DAYS, handled, reported>>

\* response.json() settles: the body has arrived and has been parsed.
JsonReply(r, body) ==
    /\ req[r].pc = "running" /\ req[r].gpc = "json"
    /\ req' = [req EXCEPT ![r] = JsonSettled(req[r], body, isReady)]
    /\ UNCHANGED <<store, isReady, user_agents, prev, everReady, CACHE_TTL_DAYS, handled, reported>>

\* The deadline of request r with one AbortController for the process:
\* the abort reaches every geolocation call whose timer is set.
DeadlineElapseShared(r) ==
    /\ req[r].pc = "running" /\ req[r].gpc \in {"fetch", "json"}
    /\ ~req[r].deadlinePassed
    /\ req' = [s \in Slots |->
                  IF s = r \/ req[s].timer = "armed"
                  THEN DeadlineCompletion(req[s], isReady)
                  ELSE req[s]]
    /\ UNCHANGED <<store, isReady, user_agents, prev, everReady,
                   CACHE_TTL_DAYS, handled, reported>>

\* 2000 ms have passed since getGeolocation was called in request r.
DeadlineElapse(r) ==
    /\ req[r].pc = "running" /\ req[r].gpc \in {"fetch", "json"}
    /\ ~req[r].deadlinePassed
    /\ req' = [req EXCEPT ![r] = DeadlineCompletion(req[r], isReady)]
    /\ UNCHANGED <<store, isReady, user_agents, prev, everReady, CACHE_TTL_DAYS, handled, reported>>

\* The SETEX of geo:<ip> completes.
GeoSetReply(r, outcome) ==
    /\ req[r].pc = "running" /\ req[r].gpc = "set"
    /\ LET q == [req[r] EXCEPT !.clean = @ /\ outcome = "ok"]
           reqs == IF outcome = "ok" THEN req ELSE Dirty(req)
       IN req' = [reqs EXCEPT ![r] = GeoAfterSet(q, setCache(outcome))]
    /\ store' = IF outcome = "ok"
                THEN [store EXCEPT ![GeoKey(req[r].ip)] =
                         setCacheEntry(req[r].geoResult, CACHE_TTL_GEO)]
                ELSE store
    /\ prev' = IF outcome = "ok" THEN prev ELSE NoPrev
    /\ UNCHANGED <<isReady, user_agents, everReady, CACHE_TTL_DAYS, handled, reported>>

\* The Redis connection becomes ready.
Connect ==
    /\ ~isReady
    /\ isReady' = TRUE
    /\ everReady' = TRUE
    /\ UNCHANGED <<req, store, user_agents, prev, CACHE_TTL_DAYS, handled, reported>>

\* The Redis connection is lost.
Disconnect ==
    /\ isReady
    /\ isReady' = FALSE
    /\ req' = Dirty(req)
    /\ prev' = NoPrev
    /\ UNCHANGED <<store, user_agents, everReady, CACHE_TTL_DAYS, handled, reported>>

\* The TTL of an entry runs out.
Expire(k) ==
    /\ store[k].present
    /\ store' = [store EXCEPT ![k] = NoEntry]
    /\ req' = Dirty(req)
    /\ prev' = NoPrev
    /\ UNCHANGED <<isReady, user_agents, everReady, CACHE_TTL_DAYS, handled, reported>>

(***************************************************************************)
(* Requests handled one at a time, under every behaviour of the store and  *)
(* of the two backends                                                     *)
(***************************************************************************)
NextSeq ==
    \/ \E input \in SeqInputs : Arrive(1, input)
    \/ \E o \in CacheOutcomes : DnsGetReply(1, o)
    \/ \E a \in DnsAnswers : DnsReply(1, a)
    \/ \E o \in CacheOutcomes : DnsSetReply(1, o)
    \/ \E o \in CacheOutcomes : GeoGetReply(1, o)
    \/ \E o \in FetchOutcomes : FetchReply(1, o)
    \/ \E b \in JsonBodies : JsonReply(1, b)
    \/ DeadlineElapse(1)
    \/ \E o \in CacheOutcomes : GeoSetReply(1, o)
    \/ Connect
    \/ Disconnect
    \/ \E k \in CacheKeys : Expire(k)

SpecSeq == Init /\ [][NextSeq]_vars

(***************************************************************************)
(* The same under every setting of CACHE_TTL_DAYS, the store being empty   *)
(* when the process starts                                                 *)
(***************************************************************************)
\* process.env.CACHE_TTL_DAYS: not set, empty, or a text parseInt reads as
\* a positive number of days.
TtlDaysChoices == {Undefined, Str(<<>>), Str(<<"7">>), Str(<<"1", "4">>),
                   Str(<<"7", "d">>)}

InitConfig ==
    /\ req = [r \in Slots |-> IdleReq]
    /\ store = [k \in CacheKeys |-> NoEntry]
    /\ isReady = FALSE
    /\ user_agents = [u \in UaKeys |-> Missing]
    /\ prev = NoPrev
    /\ everReady = FALSE
    /\ CACHE_TTL_DAYS \in TtlDaysChoices
    /\ handled = [ua \in UaChoices |-> 0]
    /\ reported = NoReport

SpecConfig == InitConfig /\ [][NextSeq]_vars

(***************************************************************************)
(* The header loop alone, over every assignment of a set of header values  *)
(***************************************************************************)
Ip4(d) == <<d, ".", d, ".", d, ".", d>>
IpPeer == <<"1", "0", ".", "0", ".", "0", ".", "5">>
Backslash == "\\"

\* x-forwarded-for: absent, empty, blank, a chain, a chain with blanks
\* around its first entry, a chain whose first entry is empty.
XffChoices == {Undefined, Str(<<>>), Str(<<" ">>), Str(IpChain),
               Str(<<" ">> \o IpA \o <<" ", ",">> \o IpB),
               Str(<<",">> \o IpA)}
\* x-real-ip: absent, empty, plain, escaped once, escaped twice, a lone
\* backslash.
XRealChoices == {Undefined, Str(<<>>), Str(Ip4("2")),
                 Str(<<Backslash>> \o Ip4("2")),
                 Str(<<Backslash, Backslash>> \o Ip4("2")),
                 Str(<<Backslash>>)}
\* Any other header: absent, empty, plain, with a leading backslash.  The
\* digit d tells the headers apart.
PlainChoices(d) == {Undefined, Str(<<>>), Str(Ip4(d)),
                    Str(<<Backslash>> \o Ip4(d))}
\* The last header may also carry blanks around its value.
PaddedChoices(d) == PlainChoices(d) \cup {Str(<<" ">> \o Ip4(d) \o <<" ">>)}
PeerChoices == {Undefined, Str(IpPeer)}

ExtractInputs ==
    { [headers |->
          [h \in HeaderNames |->
              CASE h = "x-forwarded-for" -> a
                [] h = "x-real-ip" -> b
                [] h = "x-client-ip" -> c
                [] h = "cf-connecting-ip" -> d
                [] h = "x-forwarded" -> e
                [] h = "forwarded-for" -> f
                [] h = "x-cluster-client-ip" -> g
                [] h = "user-agent" -> Str(Curl)
                [] OTHER -> Undefined],
       remoteAddress |-> p] :
      a \in XffChoices, b \in XRealChoices, c \in PlainChoices("3"),
      d \in PlainChoices("4"), e \in PlainChoices("5"),
      f \in PlainChoices("6"), g \in PaddedChoices("7"), p \in PeerChoices }

\* The store holds nothing when the process starts.
InitExtract ==
    /\ req = [r \in Slots |-> IdleReq]
    /\ store = [k \in CacheKeys |-> NoEntry]
    /\ isReady = FALSE
    /\ user_agents = [u \in UaKeys |-> Missing]
    /\ prev = NoPrev
    /\ everReady = FALSE
    /\ CACHE_TTL_DAYS = Undefined
    /\ handled = [ua \in UaChoices |-> 0]
    /\ reported = NoReport

\* The first request of the process arrives, the store not being ready.
Extract ==
    /\ req[1].pc = "idle"
    /\ \E input \in ExtractInputs : Arrive(1, input)

NextExtract == Extract

SpecExtract == InitExtract /\ [][NextExtract]_vars

(***************************************************************************)
(* The response to a first request that carries no usable IP header, for   *)
(* every user agent                                                        *)
(***************************************************************************)
\* An IP header that yields nothing: absent, or empty.
BlankChoices == {Undefined, Str(<<>>)}

RespondInputs ==
    { [headers |->
          [h \in HeaderNames |->
              CASE h = "x-forwarded-for" -> a
                [] h = "x-real-ip" -> b
                [] h = "x-client-ip" -> c
                [] h = "cf-connecting-ip" -> d
                [] h = "x-forwarded" -> e
                [] h = "forwarded-for" -> f
                [] h = "x-cluster-client-ip" -> g
                [] h = "user-agent" -> ua
                [] OTHER -> Undefined],
       remoteAddress |-> p] :
      a \in BlankChoices, b \in BlankChoices, c \in BlankChoices,
      d \in BlankChoices, e \in BlankChoices, f \in BlankChoices,
      g \in BlankChoices, ua \in UaChoices, p \in PeerChoices }

Respond ==
    /\ req[1].pc = "idle"
    /\ \E input \in RespondInputs : Arrive(1, input)

NextRespond == Respond

SpecRespond == InitExtract /\ [][NextRespond]_vars

(***************************************************************************)
(* The routes beside the root route and the metrics timer                  *)
(***************************************************************************)
\* What a route or the timer logs of the tally: Object.keys(...).length and
\* the sum of Object.values(...).
Aggregate(route, tally) ==
    [route |-> route, unique |-> Cardinality(TallyKeys(tally)),
     total |-> TallyTotal(tally)]

\* A route that logs nothing of the tally.
Plain(route) == [route |-> route, unique |-> 0, total |-> Count(0)]

\* GET /user-agents with a tally step of its own before the aggregate.
UserAgentsRouteCounting(ua) ==
    /\ reported' = Aggregate("/user-agents", TallyStep(user_agents, ua))
    /\ user_agents' = TallyStep(user_agents, ua)
    /\ UNCHANGED <<req, store, isReady, prev, everReady, CACHE_TTL_DAYS, handled>>

\* app.get("/user-agents"), called by a client whose user agent is ua: the
\* aggregate is logged and the tally is sent.
UserAgentsRoute(ua) ==
    /\ reported' = Aggregate("/user-agents", user_agents)
    /\ UNCHANGED <<req, store, isReady, user_agents, prev, everReady,
                   CACHE_TTL_DAYS, handled>>

\* app.get("/alb-health-check"): res.send("ok").
AlbHealthCheck ==
    /\ reported' = Plain("/alb-health-check")
    /\ UNCHANGED <<req, store, isReady, user_agents, prev, everReady,
                   CACHE_TTL_DAYS, handled>>

\* app.get("/health"): res.status(200).end().
Health ==
    /\ reported' = Plain("/health")
    /\ UNCHANGED <<req, store, isReady, user_agents, prev, everReady,
                   CACHE_TTL_DAYS, handled>>

\* app.use(function (req, res) {...}): any other route is answered 404.
NotFound ==
    /\ reported' = Plain("404")
    /\ UNCHANGED <<req, store, isReady, user_agents, prev, everReady,
                   CACHE_TTL_DAYS, handled>>

\* setInterval(() => {...}, 60000): the periodic metrics.
PeriodicMetrics ==
    /\ reported' = Aggregate("periodic_metrics", user_agents)
    /\ UNCHANGED <<req, store, isReady, user_agents, prev, everReady,
                   CACHE_TTL_DAYS, handled>>

(***************************************************************************)
(* Requests handled concurrently: every slot holds a request of its own,   *)
(* and the completions of their awaited operations interleave              *)
(***************************************************************************)
\* The user agents of the concurrent requests: none, a command-line
\* client, two names of Object.prototype.
ConcUas == {Undefined, Str(Curl), Str(Constructor), Str(Proto)}

ConcInputs ==
    { [headers |-> [NoHeaders EXCEPT !["x-forwarded-for"] = Str(IpChain),
                                     !["user-agent"] = ua],
       remoteAddress |-> Str(IpB)] : ua \in ConcUas }

\* The backends of the concurrent requests: the DNS resolver fails or
\* names one host, the API answers 200 with a record.
ConcDnsAnswers == { [err |-> TRUE, address |-> <<>>],
                    [err |-> FALSE, address |-> <<HostA>>] }
ConcJsonBodies == { [ok |-> TRUE, v |-> GeoSG] }

NextConc ==
    \/ \E r \in Slots, input \in ConcInputs : Arrive(r, input)
    \/ \E r \in Slots : DnsGetReply(r, "ok")
    \/ \E r \in Slots, a \in ConcDnsAnswers : DnsReply(r, a)
    \/ \E r \in Slots : DnsSetReply(r, "ok")
    \/ \E r \in Slots : GeoGetReply(r, "ok")
    \/ \E r \in Slots : FetchReply(r, "ok")
    \/ \E r \in Slots, b \in ConcJsonBodies : JsonReply(r, b)
    \/ \E r \in Slots : GeoSetReply(r, "ok")
    \/ Connect

SpecConc == InitExtract /\ [][NextConc]_vars

(***************************************************************************)
(* The root route together with the other routes and the metrics timer     *)
(***************************************************************************)
NextRoutes ==
    \/ \E input \in ConcInputs : Arrive(1, input)
    \/ DnsGetReply(1, "ok")
    \/ \E a \in ConcDnsAnswers : DnsReply(1, a)
    \/ DnsSetReply(1, "ok")
    \/ GeoGetReply(1, "ok")
    \/ \E o \in FetchOutcomes : FetchReply(1, o)
    \/ \E b \in ConcJsonBodies : JsonReply(1, b)
    \/ GeoSetReply(1, "ok")
    \/ Connect
    \/ \E ua \in ConcUas : UserAgentsRoute(ua)
    \/ AlbHealthCheck
    \/ Health
    \/ NotFound
    \/ PeriodicMetrics

SpecRoutes == InitExtract /\ [][NextRoutes]_vars

(***************************************************************************)
(* Requests for two addresses handled concurrently, the store being empty  *)
(* when the process starts and each backend answering for the address it   *)
(* is asked about                                                          *)
(***************************************************************************)
RaceInputs == {InputA, InputB}

\* What dns.reverse calls back with for an address: IpA has two names and
\* the resolver may hand out either first; IpB has one.
DnsBackend(ip) ==
    IF ip = Str(IpA)
    THEN { [err |-> FALSE, address |-> <<HostA, HostC>>],
           [err |-> FALSE, address |-> <<HostC, HostA>>] }
    ELSE { [err |-> FALSE, address |-> <<HostB>>] }

\* The body ip-api sends for an address.
GeoBackend(ip) ==
    IF ip = Str(IpA) THEN { [ok |-> TRUE, v |-> GeoSG] }
    ELSE { [ok |-> TRUE, v |-> GeoUS] }

NextRace ==
    \/ \E r \in Slots, input \in RaceInputs : Arrive(r, input)
    \/ \E r \in Slots : DnsGetReply(r, "ok")
    \/ \E r \in Slots : \E a \in DnsBackend(req[r].ip) : DnsReply(r, a)
    \/ \E r \in Slots : DnsSetReply(r, "ok")
    \/ \E r \in Slots : GeoGetReply(r, "ok")
    \/ \E r \in Slots : FetchReply(r, "ok")
    \/ \E r \in Slots : \E b \in GeoBackend(req[r].ip) : JsonReply(r, b)
    \/ \E r \in Slots : DeadlineElapse(r)
    \/ \E r \in Slots : GeoSetReply(r, "ok")
    \/ Connect

SpecRace == InitExtract /\ [][NextRace]_vars

(***************************************************************************)
(* Requests that carry headers named like the computed fields, the store   *)
(* never becoming ready                                                    *)
(***************************************************************************)
\* What a client may send under such a name: nothing, or a text of its own.
EchoChoices(text) == {Undefined, Str(text)}

EchoInputs ==
    { [headers |->
          [h \in HeaderNames |->
              CASE h = "x-forwarded-for" -> a
                [] h = "user-agent" -> ua
                [] h = "ip" -> i
                [] h = "geolocation" -> g
                [] h = "reverselookup" -> n
                [] h = "currentts" -> t
                [] h = "debug" -> d
                [] OTHER -> Undefined],
       remoteAddress |-> Undefined] :
      a \in EchoChoices(IpChain), ua \in {Str(Curl), Str(Mozilla)},
      i \in EchoChoices(IpB), g \in EchoChoices(Other),
      n \in EchoChoices(HostC), t \in EchoChoices(Other),
      d \in EchoChoices(Other) }

NextEcho ==
    \/ \E input \in EchoInputs : Arrive(1, input)
    \/ \E a \in ConcDnsAnswers : DnsReply(1, a)
    \/ \E o \in FetchOutcomes : FetchReply(1, o)
    \/ \E b \in ConcJsonBodies : JsonReply(1, b)

SpecEcho == InitExtract /\ [][NextEcho]_vars

(***************************************************************************)
(* Two runs of the root route side by side: twin requests, alike but for   *)
(* their user agents, that get the same answers from the store and the     *)
(* backends at the same points                                             *)
(***************************************************************************)
Twins == {1, 2}

\* The user agents of twins: a command-line client and a browser, or none
\* and a browser.
TwinUas == {<<Str(Curl), Str(Mozilla)>>, <<Undefined, Str(Mozilla)>>}

WithUa(input, ua) == [input EXCEPT !.headers["user-agent"] = ua]

\* A twin as the step finds it; a failed command to the store marks it as
\* the actions above do.
Twin(r, outcome) == [req[r] EXCEPT !.clean = @ /\ outcome = "ok"]

\* Both twins take the same step and become q1 and q2; a failed command to
\* the store is seen by the other requests as in the actions above.
Lockstep(q1, q2, outcome) ==
    req' = [r \in Slots |->
               IF r = 1 THEN q1
               ELSE IF r = 2 THEN q2
               ELSE IF outcome = "ok" THEN req[r] ELSE Dirty(req)[r]]

TwinArrive(input, ua1, ua2) ==
    /\ ua1 # ua2
    /\ \A r \in Twins : req[r].pc \in {"idle", "sent"}
    /\ HandledTotal < MaxRequests
    /\ req' = [r \in Slots |->
                  IF r = 1
                  THEN HandleRoot(WithUa(input, ua1).headers,
                                  input.remoteAddress, isReady)
                  ELSE IF r = 2
                  THEN HandleRoot(WithUa(input, ua2).headers,
                                  input.remoteAddress, isReady)
                  ELSE req[r]]
    /\ user_agents' = TallyStep(TallyStep(user_agents, ua1), ua2)
    /\ handled' = [handled EXCEPT ![ua1] = @ + 1, ![ua2] = @ + 1]
    /\ prev' = IF req[1].pc = "sent" THEN Summary(req[1]) ELSE prev
    /\ UNCHANGED <<store, isReady, everReady, CACHE_TTL_DAYS, reported>>

TwinDnsGetReply(outcome) ==
    /\ \A r \in Twins : req[r].pc = "running" /\ req[r].dpc = "get"
    /\ Lockstep(DnsAfterGetFromCache(
                    Twin(1, outcome),
                    getFromCache(outcome, store[DnsKey(req[1].ip)]),
                    isReady),
                DnsAfterGetFromCache(
                    Twin(2, outcome),
                    getFromCache(outcome, store[DnsKey(req[2].ip)]),
                    isReady),
                outcome)
    /\ prev' = IF outcome = "ok" THEN prev ELSE NoPrev
    /\ UNCHANGED <<store, isReady, user_agents, everReady, CACHE_TTL_DAYS,
                   handled, reported>>

TwinDnsReply(answer) ==
    /\ \A r \in Twins : req[r].pc = "running" /\ req[r].dpc = "reverse"
    /\ Lockstep(DnsResolved([Twin(1, "ok") EXCEPT !.dnsAnswer = answer],
                            reverseDns(answer), isReady),
                DnsResolved([Twin(2, "ok") EXCEPT !.dnsAnswer = answer],
                            reverseDns(answer), isReady),
                "ok")
    /\ UNCHANGED <<store, isReady, user_agents, prev, everReady,
                   CACHE_TTL_DAYS, handled, reported>>

TwinDnsSetReply(outcome) ==
    /\ \A r \in Twins : req[r].pc = "running" /\ req[r].dpc = "set"
    /\ Lockstep(DnsAfterSet(Twin(1, outcome), setCache(outcome), isReady),
                DnsAfterSet(Twin(2, outcome), setCache(outcome), isReady),
                outcome)
    /\ store' = IF outcome = "ok"
                THEN [k \in CacheKeys |->
                         IF k = DnsKey(req[2].ip)
                         THEN setCacheEntry(req[2].dnsResult, CACHE_TTL_DNS)
                         ELSE IF k = DnsKey(req[1].ip)
                         THEN setCacheEntry(req[1].dnsResult, CACHE_TTL_DNS)
                         ELSE store[k]]
                ELSE store
    /\ prev' = IF outcome = "ok" THEN prev ELSE NoPrev
    /\ UNCHANGED <<isReady, user_agents, everReady, CACHE_TTL_DAYS, handled,
                   reported>>

TwinGeoGetReply(outcome) ==
    /\ \A r \in Twins : req[r].pc = "running" /\ req[r].gpc = "get"
    /\ Lockstep(GeoAfterGetFromCache(
                    Twin(1, outcome),
                    getFromCache(outcome, store[GeoKey(req[1].ip)]),
                    isReady),
                GeoAfterGetFromCache(
                    Twin(2, outcome),
                    getFromCache(outcome, store[GeoKey(req[2].ip)]),
                    isReady),
                outcome)
    /\ prev' = IF outcome = "ok" THEN prev ELSE NoPrev
    /\ UNCHANGED <<store, isReady, user_agents, everReady, CACHE_TTL_DAYS,
                   handled, reported>>

TwinFetchReply(outcome) ==
    /\ \A r \in Twins : req[r].pc = "running" /\ req[r].gpc = "fetch"
    /\ Lockstep(FetchCompletion(Twin(1, "ok"), outcome, isReady),
                FetchCompletion(Twin(2, "ok"), outcome, isReady),
                "ok")
    /\ UNCHANGED <<store, isReady, user_agents, prev, everReady,
                   CACHE_TTL_DAYS, handled, reported>>

TwinJsonReply(body) ==
    /\ \A r \in Twins : req[r].pc = "running" /\ req[r].gpc = "json"
    /\ Lockstep(JsonSettled(Twin(1, "ok"), body, isReady),
                JsonSettled(Twin(2, "ok"), body, isReady),
                "ok")
    /\ UNCHANGED <<store, isReady, user_agents, prev, everReady,
                   CACHE_TTL_DAYS, handled, reported>>

TwinDeadlineElapse ==
    /\ \A r \in Twins : /\ req[r].pc = "running"
                        /\ req[r].gpc \in {"fetch", "json"}
                        /\ ~req[r].deadlinePassed
    /\ Lockstep(DeadlineCompletion(Twin(1, "ok"), isReady),
                DeadlineCompletion(Twin(2, "ok"), isReady),
                "ok")
    /\ UNCHANGED <<store, isReady, user_agents, prev, everReady,
                   CACHE_TTL_DAYS, handled, reported>>

TwinGeoSetReply(outcome) ==
    /\ \A r \in Twins : req[r].pc = "running" /\ req[r].gpc = "set"
    /\ Lockstep(GeoAfterSet(Twin(1, outcome), setCache(outcome)),
                GeoAfterSet(Twin(2, outcome), setCache(outcome)),
                outcome)
    /\ store' = IF outcome = "ok"
                THEN [k \in CacheKeys |->
                         IF k = GeoKey(req[2].ip)
                         THEN setCacheEntry(req[2].geoResult, CACHE_TTL_GEO)
                         ELSE IF k = GeoKey(req[1].ip)
                         THEN setCacheEntry(req[1].geoResult, CACHE_TTL_GEO)
                         ELSE store[k]]
                ELSE store
    /\ prev' = IF outcome = "ok" THEN prev ELSE NoPrev
    /\ UNCHANGED <<isReady, user_agents, everReady, CACHE_TTL_DAYS, handled,
                   reported>>

NextTwin ==
    \/ \E input \in SeqInputs, uas \in TwinUas :
          TwinArrive(input, uas[1], uas[2])
    \/ \E o \in CacheOutcomes : TwinDnsGetReply(o)
    \/ \E a \in DnsAnswers : TwinDnsReply(a)
    \/ \E o \in CacheOutcomes : TwinDnsSetReply(o)
    \/ \E o \in CacheOutcomes : TwinGeoGetReply(o)
    \/ \E o \in FetchOutcomes : TwinFetchReply(o)
    \/ \E b \in JsonBodies : TwinJsonReply(b)
    \/ TwinDeadlineElapse
    \/ \E o \in CacheOutcomes : TwinGeoSetReply(o)
    \/ Connect
    \/ Disconnect

SpecTwin == Init /\ [][NextTwin]_vars

(***************************************************************************)
(* Claims                                                                  *)
(***************************************************************************)
Min(S) == CHOOSE x \in S : \A y \in S : x <= y
Max(S) == CHOOSE x \in S : \A y \in S : x >= y

\* The normalization the specification describes, stated on positions: the
\* text before the first comma without its surrounding blanks
\* (x-forwarded-for), the text without one leading backslash (x-real-ip),
\* the text itself (any other header).
FirstSegment(s) ==
    LET commas == {i \in 1..Len(s) : s[i] = ","}
        stop == IF commas = {} THEN Len(s) + 1 ELSE Min(commas)
        inked == {i \in 1..(stop - 1) : s[i] \notin WhiteSpace}
    IN IF inked = {} THEN <<>> ELSE SubSeq(s, Min(inked), Max(inked))

Normalized(header, s) ==
    IF header = "x-forwarded-for" THEN FirstSegment(s)
    ELSE IF header = "x-real-ip" /\ Len(s) > 0 /\ s[1] = Backslash
         THEN SubSeq(s, 2, Len(s))
         ELSE s

PresentHeaders(headers) ==
    {i \in 1..Len(ipHeaders) : headers[ipHeaders[i]] # Undefined}
NonEmptyHeaders(headers) ==
    {i \in 1..Len(ipHeaders) : headers[ipHeaders[i]] \notin {Undefined, Str(<<>>)}}

\* C1 as stated: whenever some IP header is present (empty and blank values
\* included), the extracted IP is the normalized value of the first present
\* header, never a later header's value and never the peer address.
C1_FirstPresentHeader ==
    \A r \in Slots :
        (req[r].pc # "idle" /\ PresentHeaders(req[r].headers) # {}) =>
            LET i == Min(PresentHeaders(req[r].headers)) IN
            req[r].ip = Str(Normalized(ipHeaders[i], req[r].headers[ipHeaders[i]].s))

\* C1 as amended: the extracted IP is the normalized value of the first
\* header whose value is a non-empty string, if that normalized value is
\* non-empty; it is the peer address exactly when no header has a non-empty
\* value or the selected header normalizes to the empty string.
C1_FirstNonEmptyHeader ==
    \A r \in Slots :
        req[r].pc # "idle" =>
            LET cand == NonEmptyHeaders(req[r].headers) IN
            IF cand = {} THEN req[r].ip = req[r].remoteAddress
            ELSE LET i == Min(cand)
                     v == Normalized(ipHeaders[i], req[r].headers[ipHeaders[i]].s)
                 IN req[r].ip = IF v = <<>> THEN req[r].remoteAddress ELSE Str(v)

\* A request with an escaped x-real-ip and lower-precedence headers, whose
\* IP is the unescaped x-real-ip value.
C1_Witness ==
    \E r \in Slots :
        /\ req[r].pc = "running"
        /\ req[r].headers["x-forwarded-for"] = Str(<<>>)
        /\ req[r].headers["x-real-ip"] = Str(<<Backslash>> \o Ip4("2"))
        /\ req[r].headers["x-client-ip"] = Str(Ip4("3"))
        /\ req[r].remoteAddress = Str(IpPeer)
        /\ req[r].ip = Str(Ip4("2"))

(***************************************************************************)
(* IP literals                                                             *)
(***************************************************************************)
HexDigits == Digits \cup {"a", "b", "c", "d", "e", "f",
                          "A", "B", "C", "D", "E", "F"}

RECURSIVE SplitOn(_, _)
\* The parts of s between the occurrences of sep.
SplitOn(s, sep) ==
    LET seps == {i \in 1..Len(s) : s[i] = sep} IN
    IF seps = {} THEN <<s>>
    ELSE <<SubSeq(s, 1, Min(seps) - 1)>>
             \o SplitOn(SubSeq(s, Min(seps) + 1, Len(s)), sep)

IsOctet(p) ==
    /\ Len(p) \in 1..3
    /\ \A i \in 1..Len(p) : p[i] \in Digits
    /\ DecimalValue(p) <= 255

IsIPv4(s) ==
    LET parts == SplitOn(s, ".") IN
    Len(parts) = 4 /\ \A i \in 1..4 : IsOctet(parts[i])

IsHexGroup(p) == Len(p) \in 1..4 /\ \A i \in 1..Len(p) : p[i] \in HexDigits

\* Eight groups of hexadecimal digits, or fewer with one "::"; the last
\* group may be a dotted IPv4 address.
IsIPv6(s) ==
    LET parts == SplitOn(s, ":")
        n == Len(parts)
        empty == {i \in 1..n : parts[i] = <<>>}
        group(i) == IsHexGroup(parts[i]) \/ (i = n /\ n > 1 /\ IsIPv4(parts[i]))
    IN /\ n \in 3..8
       /\ \A i \in (1..n) \ empty : group(i)
       /\ \/ empty = {} /\ n = 8
          \/ \E i \in 2..(n - 1) : empty = {i}
          \/ empty = {1, 2}
          \/ empty = {n - 1, n}
          \/ empty = {1, 2, 3} /\ n = 3

IsIpLiteral(s) == IsIPv4(s) \/ IsIPv6(s)

\* C2 as stated: an IP handed to enrichment (a running request: its DNS
\* stream has been started with req.ip) is a valid IPv4 or IPv6 literal.
C2_EnrichedIpIsLiteral ==
    \A r \in Slots :
        req[r].pc = "running" => IsIpLiteral(req[r].ip.s)

(***************************************************************************)
(* The cache-less root route of src/unnamed/part_001                       *)
(***************************************************************************)
\* try { reverseLookup = await reverseDns(ip); } catch (err) {}
CachelessReverseLookup(c) == IF c.k = "return" THEN c.v ELSE Undefined
\* try { geolocation = await getGeolocation(ip); } catch (err) {}
CachelessGeolocation(c) == IF c.k = "return" THEN c.v ELSE Null

(***************************************************************************)
(* Claims on the pipeline                                                  *)
(***************************************************************************)
AtDnsAwait(q) == q.dpc \in {"get", "reverse", "set"}
AtGeoAwait(q) == q.gpc \in {"get", "fetch", "json", "set"}

\* C3: no exception leaves the root handler: under every cache state, DNS
\* outcome and geolocation outcome a request is either suspended at an
\* awaited operation or has sent its response.
C3_EnrichmentNeverRaises ==
    \A r \in Slots :
        /\ req[r].pc # "raised"
        /\ req[r].pc = "running" => (AtDnsAwait(req[r]) \/ AtGeoAwait(req[r]))

\* A response sent after a malformed cache entry, a DNS error and a
\* geolocation timeout: the enrichment is empty.
C3_Witness ==
    \E r \in Slots :
        /\ req[r].pc = "sent"
        /\ req[r].geoCached = Str(Malformed)
        /\ req[r].dnsOut.k = "throw"
        /\ req[r].geoOut = Throw("Timeout")
        /\ req[r].reverseLookup = Undefined
        /\ req[r].geolocation = Null

\* C4: while the store has never been ready, every answered request with an
\* IP has called both resolvers once and returns exactly what the
\* cache-less route returns for the resolvers' answers.
C4_NeverReadyIsCacheless ==
    ~everReady =>
        \A r \in Slots :
            (req[r].pc = "sent" /\ Truthy(req[r].ip)) =>
                /\ req[r].dnsCalls = 1
                /\ req[r].geoCalls = 1
                /\ req[r].reverseLookup = CachelessReverseLookup(req[r].dnsOut)
                /\ req[r].geolocation = CachelessGeolocation(req[r].geoOut)

\* The store holds entries for the IP, has never been ready, and the
\* response carries the resolvers' answers.
C4_Witness ==
    \E r \in Slots :
        /\ ~everReady
        /\ req[r].pc = "sent"
        /\ req[r].ip = Str(IpA)
        /\ store[DnsKey(req[r].ip)] = Entry(Stringify(Str(HostC)), 0)
        /\ store[GeoKey(req[r].ip)] = Entry(Stringify(GeoJP), 0)
        /\ req[r].reverseLookup = Str(HostA)
        /\ req[r].geolocation = GeoSG

\* C5: when the previous enrichment of the same IP obtained a reverse name
\* and a geolocation record and the cache has worked since that request
\* arrived, the next enrichment returns the same two values and calls
\* neither resolver.
C5_SecondEnrichmentFromCache ==
    \A r \in Slots :
        (/\ req[r].pc = "sent"
         /\ req[r].clean
         /\ prev.valid
         /\ prev.ip = req[r].ip) =>
            /\ req[r].reverseLookup = prev.reverseLookup
            /\ req[r].geolocation = prev.geolocation
            /\ req[r].dnsCalls = 0
            /\ req[r].geoCalls = 0

\* The first enrichment got its values from the resolvers (the store held
\* other values or none), the second one returned the same values.
C5_Witness ==
    \E r \in Slots :
        /\ req[r].pc = "sent"
        /\ req[r].clean
        /\ prev.valid
        /\ prev.ip = req[r].ip
        /\ prev.reverseLookup = Str(HostA)
        /\ prev.geolocation = GeoUS
        /\ req[r].reverseLookup = Str(HostA)
        /\ req[r].geolocation = GeoUS

\* What a stream yields by itself: the parsed cache entry on a hit, else
\* the resolver's value, else nothing.
DnsStreamValue(q) ==
    IF DnsCacheHit(q.dnsCached) THEN Parse(q.dnsCached.s).v
    ELSE IF q.dnsOut.k = "return" THEN q.dnsOut.v
    ELSE Undefined
GeoStreamValue(q) ==
    IF GeoCacheHit(q.geoCached) THEN Parse(q.geoCached.s).v
    ELSE IF q.geoOut.k = "return" THEN q.geoOut.v
    ELSE Null

C6_WitnessDnsFailed ==
    \E r \in Slots :
        /\ req[r].pc = "sent"
        /\ req[r].dnsOut.k = "throw"
        /\ req[r].geoOut = Return(GeoSG)
        /\ req[r].geolocation = GeoSG

C8_GeoDeadline ==
    \A r \in Slots :
        /\ ~req[r].geoLate
        /\ ~(req[r].gpc \in {"fetch", "json"} /\ req[r].deadlinePassed)

\* C10 as stated: a cache entry that is present and parses is returned as
\* it is, with no resolver call and no cache write in that stream.
C10_HitTakesNoFurtherAction ==
    \A r \in Slots :
        /\ (Truthy(req[r].dnsCached) /\ Parse(req[r].dnsCached.s).ok) =>
              /\ req[r].dnsCalls = 0
              /\ req[r].dnsWrites = 0
              /\ req[r].dpc = "done"
              /\ req[r].reverseLookup = Parse(req[r].dnsCached.s).v
        /\ (Truthy(req[r].geoCached) /\ Parse(req[r].geoCached.s).ok) =>
              /\ req[r].geoCalls = 0
              /\ req[r].geoWrites = 0
              /\ req[r].gpc = "done"
              /\ req[r].geolocation = Parse(req[r].geoCached.s).v

\* The text read from the store is there and JSON.parse rejects it.
Undeserializable(cached) == Truthy(cached) /\ ~Parse(cached.s).ok

\* C11: a cache entry that cannot be deserialized is a miss, not an error:
\* the resolver is called once, the stream returns what the resolver
\* returned, and when the resolver succeeded and the cache worked, the
\* store holds the serialized result, which parses back to it, under the
\* key of the malformed entry.
C11_MalformedIsMiss ==
    \A r \in Slots :
        /\ Undeserializable(req[r].dnsCached) =>
              /\ req[r].pc # "raised"
              /\ req[r].dnsCalls = 1
              /\ req[r].dpc = "done" =>
                    req[r].reverseLookup = CachelessReverseLookup(req[r].dnsOut)
              /\ (/\ req[r].dpc = "done" /\ req[r].clean
                  /\ req[r].dnsOut.k = "return" /\ Truthy(req[r].dnsOut.v)) =>
                    /\ req[r].dnsWrites = 1
                    /\ store[DnsKey(req[r].ip)] =
                          Entry(Stringify(req[r].dnsOut.v), CACHE_TTL_DNS)
                    /\ Parse(store[DnsKey(req[r].ip)].text) =
                          [ok |-> TRUE, v |-> req[r].dnsOut.v]
        /\ Undeserializable(req[r].geoCached) =>
              /\ req[r].pc # "raised"
              /\ req[r].geoCalls = 1
              /\ req[r].gpc = "done" =>
                    req[r].geolocation = CachelessGeolocation(req[r].geoOut)
              /\ (/\ req[r].gpc = "done" /\ req[r].clean
                  /\ req[r].geoOut.k = "return" /\ Truthy(req[r].geoOut.v)) =>
                    /\ req[r].geoWrites = 1
                    /\ store[GeoKey(req[r].ip)] =
                          Entry(Stringify(req[r].geoOut.v), CACHE_TTL_GEO)
                    /\ Parse(store[GeoKey(req[r].ip)].text) =
                          [ok |-> TRUE, v |-> req[r].geoOut.v]

\* Both entries of the IP were malformed; both resolvers answered and the
\* store now holds their serialized answers.
C11_Witness ==
    \E r \in Slots :
        /\ req[r].pc = "sent" /\ req[r].clean
        /\ req[r].dnsCached = Str(Malformed)
        /\ req[r].geoCached = Str(Malformed)
        /\ req[r].reverseLookup = Str(HostA)
        /\ req[r].geolocation = GeoSG
        /\ store[DnsKey(req[r].ip)] = Entry(Stringify(Str(HostA)), CACHE_TTL_DNS)
        /\ store[GeoKey(req[r].ip)] = Entry(Stringify(GeoSG), CACHE_TTL_GEO)

\* The lookup missed the cache and its resolver returned a value.
DnsMissResolved(q) ==
    /\ q.dnsCached # Undefined /\ ~DnsCacheHit(q.dnsCached)
    /\ q.dnsOut.k = "return" /\ Truthy(q.dnsOut.v)
GeoMissResolved(q) ==
    /\ q.geoCached # Undefined /\ ~GeoCacheHit(q.geoCached)
    /\ q.geoOut.k = "return" /\ Truthy(q.geoOut.v)

\* C12: after a miss and a successful resolver call the lookup calls
\* setCache once and issues at most one write; a write the store accepted
\* is the serialized result under prefix:<ip> with a TTL of 2,592,000
\* seconds; whether the write was accepted, rejected or not issued (store
\* not ready), the lookup returns the resolver's result.
C12_WriteBackOnMiss ==
    /\ \A k \in CacheKeys : store[k].present => store[k].ttl \in {0, 2592000}
    /\ \A r \in Slots :
        /\ req[r].dnsWrites <= 1 /\ req[r].geoWrites <= 1
        /\ (DnsMissResolved(req[r]) /\ req[r].dpc = "done") =>
              /\ req[r].pc # "raised"
              /\ req[r].dnsSet \in {True, False}
              /\ req[r].dnsSet = True => req[r].dnsWrites = 1
              /\ req[r].reverseLookup = req[r].dnsOut.v
              /\ (req[r].dnsSet = True /\ req[r].clean) =>
                    store[DnsKey(req[r].ip)] =
                        Entry(Stringify(req[r].dnsOut.v), 2592000)
        /\ (GeoMissResolved(req[r]) /\ req[r].gpc = "done") =>
              /\ req[r].pc # "raised"
              /\ req[r].geoSet \in {True, False}
              /\ req[r].geoSet = True => req[r].geoWrites = 1
              /\ req[r].geolocation = req[r].geoOut.v
              /\ (req[r].geoSet = True /\ req[r].clean) =>
                    store[GeoKey(req[r].ip)] =
                        Entry(Stringify(req[r].geoOut.v), 2592000)

\* The write of the reverse name was rejected and the name is returned all
\* the same; the geolocation record was written with the 30-day TTL.
C12_Witness ==
    \E r \in Slots :
        /\ req[r].pc = "sent"
        /\ req[r].ip = Str(IpA)
        /\ req[r].dnsWrites = 1 /\ req[r].dnsSet = False
        /\ req[r].reverseLookup = Str(HostA)
        /\ req[r].geoSet = True
        /\ req[r].geolocation = GeoSG
        /\ store[GeoKey(req[r].ip)] = Entry(Stringify(GeoSG), 2592000)

\* C13 as stated: the TTLs are configured independently: some setting keeps
\* the TTL the dns: namespace has now and gives the geo: namespace a
\* different one.
C13_IndependentTtl ==
    \E days \in TtlDaysChoices :
        /\ CacheTtl(days).DNS = CACHE_TTL_DNS
        /\ CacheTtl(days).GEO # CacheTtl(days).DNS

\* C13 as amended: under every setting of CACHE_TTL_DAYS the two
\* namespaces have the same TTL, the number of days set (30 when it is not
\* set or empty) in seconds, and every entry written carries it.
C13_OneTtlForBoth ==
    /\ CACHE_TTL_DNS = CACHE_TTL_GEO
    /\ CACHE_TTL_DNS =
          (IF CACHE_TTL_DAYS \in {Undefined, Str(<<>>)} THEN 30
           ELSE IF CACHE_TTL_DAYS = Str(<<"1", "4">>) THEN 14 ELSE 7) * 86400
    /\ \A k \in CacheKeys : store[k].present => store[k].ttl = CACHE_TTL_DNS

\* With CACHE_TTL_DAYS=7 a reverse name and a geolocation record have been
\* written, each with a TTL of 604,800 seconds.
C13_Witness ==
    /\ CACHE_TTL_DAYS = Str(<<"7">>)
    /\ store[DnsKey(Str(IpA))] = Entry(Stringify(Str(HostA)), 604800)
    /\ store[GeoKey(Str(IpA))] = Entry(Stringify(GeoSG), 604800)

\* What getFromCache may return: null or a text.
CacheGetValue(v) == v = Null \/ v.t = "string"

\* In every state: getFromCache has returned null or a text to a lookup
\* that is past it, a null is followed by the resolver call of a miss, and
\* while nothing has touched the store since the request arrived, a text
\* returned is the text stored under the key and a null means no entry.
C14_GetReturned ==
    \A r \in Slots :
        /\ req[r].pc # "raised"
        /\ req[r].dpc \notin {"idle", "get"} =>
              /\ CacheGetValue(req[r].dnsCached)
              /\ req[r].dnsCached = Null => req[r].dnsCalls = 1
              /\ (req[r].clean /\ req[r].dnsWrites = 0) =>
                    req[r].dnsCached =
                        getFromCacheValue("ok", store[DnsKey(req[r].ip)])
        /\ req[r].gpc \notin {"idle", "get"} =>
              /\ CacheGetValue(req[r].geoCached)
              /\ req[r].geoCached = Null => req[r].geoCalls = 1
              /\ (req[r].clean /\ req[r].geoWrites = 0) =>
                    req[r].geoCached =
                        getFromCacheValue("ok", store[GeoKey(req[r].ip)])

\* In every step taken while the store is not ready: no GET is issued, and
\* a lookup that starts gets null from getFromCache at once.
C14_NotReadyStep ==
    ~isReady =>
        \A r \in Slots :
            /\ req'[r].dpc = "get" => req[r].dpc = "get"
            /\ req'[r].gpc = "get" => req[r].gpc = "get"
            /\ (user_agents' # user_agents /\ req'[r].dpc # "idle") =>
                  req'[r].dnsCached = Null
            /\ (req[r].gpc = "idle" /\ req'[r].gpc # "idle") =>
                  req'[r].geoCached = Null

\* C14: getFromCache returns the stored text or null and never raises; it
\* returns null without a command to the store when the store is not
\* ready, and null when the command fails; its caller treats null as a
\* miss.
C14_GetIsTotal == []C14_GetReturned /\ [][C14_NotReadyStep]_vars

\* getFromCache returned the stored reverse name, and then null for the
\* geolocation although the store holds a record: the geolocation
\* resolver was called as on a miss.
C14_Witness ==
    \E r \in Slots :
        /\ req[r].pc = "sent"
        /\ req[r].ip = Str(IpA)
        /\ req[r].dnsCached = Str(Stringify(Str(HostC)))
        /\ req[r].reverseLookup = Str(HostC)
        /\ req[r].geoCached = Null
        /\ store[GeoKey(req[r].ip)] = Entry(Stringify(GeoJP), 0)
        /\ req[r].geoCalls = 1
        /\ req[r].geolocation = GeoSG

\* In every step: a setCache that returns does so with true or false and
\* its caller goes on to return the resolver's result; when it returns
\* true the store holds the serialized value under the key; when it
\* returns false the store is as it was; while the store is not ready no
\* SETEX is issued and setCache returns false.
C15_SetStep ==
    \A r \in Slots :
        /\ req'[r].pc # "raised"
        /\ (req[r].dpc = "set" /\ req'[r].dpc # "set") =>
              /\ req'[r].dnsSet \in {True, False}
              /\ req'[r].reverseLookup = req[r].dnsResult
        /\ (req[r].gpc = "set" /\ req'[r].gpc # "set") =>
              /\ req'[r].geoSet \in {True, False}
              /\ req'[r].geolocation = req[r].geoResult
        /\ (req[r].dnsSet = Undefined /\ req'[r].dnsSet = True) =>
              /\ req[r].dpc = "set"
              /\ store'[DnsKey(req[r].ip)] =
                    Entry(Stringify(req[r].dnsResult), CACHE_TTL_DNS)
        /\ (req[r].geoSet = Undefined /\ req'[r].geoSet = True) =>
              /\ req[r].gpc = "set"
              /\ store'[GeoKey(req[r].ip)] =
                    Entry(Stringify(req[r].geoResult), CACHE_TTL_GEO)
        /\ (req[r].dnsSet = Undefined /\ req'[r].dnsSet = False) =>
              store' = store
        /\ (req[r].geoSet = Undefined /\ req'[r].geoSet = False) =>
              store' = store
        /\ ~isReady =>
              /\ req'[r].dpc = "set" => req[r].dpc = "set"
              /\ req'[r].gpc = "set" => req[r].gpc = "set"
              /\ (req[r].dpc = "reverse" /\ req'[r].dnsSet # Undefined) =>
                    req'[r].dnsSet = False
              /\ (req[r].gpc \in {"fetch", "json"} /\ req'[r].geoSet # Undefined) =>
                    req'[r].geoSet = False

\* C15: setCache never raises; it returns true only when the store
\* accepted the write, and false, the store left as it was, when the store
\* is not ready or the write fails.
C15_SetIsTotal == [][C15_SetStep]_vars

\* The store accepted the reverse name and rejected the geolocation
\* record: setCache returned true, then false, the malformed geolocation
\* entry is still there, and the response carries both results.
C15_Witness ==
    \E r \in Slots :
        /\ req[r].pc = "sent"
        /\ req[r].dnsSet = True
        /\ store[DnsKey(req[r].ip)] = Entry(Stringify(Str(HostA)), CACHE_TTL_DNS)
        /\ req[r].geoSet = False /\ req[r].geoWrites = 1
        /\ store[GeoKey(req[r].ip)] = Entry(Malformed, 0)
        /\ req[r].reverseLookup = Str(HostA)
        /\ req[r].geolocation = GeoSG

\* C16 as stated: a request with no IP header and no peer address is
\* answered without any cache access or resolver call, and the response,
\* HTML or JSON, carries the marker "Could not determine client IP", the
\* full header set and the raw peer address.
C16_UnresolvedIpIsReported ==
    \A r \in Slots :
        (/\ req[r].pc # "idle"
         /\ PresentHeaders(req[r].headers) = {}
         /\ req[r].remoteAddress = Undefined) =>
            /\ req[r].pc = "sent"
            /\ req[r].dpc = "idle" /\ req[r].gpc = "idle"
            /\ req[r].dnsCalls = 0 /\ req[r].geoCalls = 0
            /\ req[r].dnsWrites = 0 /\ req[r].geoWrites = 0
            /\ req[r].response.format \in {"html", "json"}
            /\ req[r].response.debug.message = CouldNotDetermine
            /\ req[r].response.debug.allHeaders = req[r].headers
            /\ req[r].response.debug.remoteAddress = req[r].remoteAddress

\* The header the loop stops at: the first whose value is a non-empty
\* string (0 when there is none).
Selected(headers) ==
    IF NonEmptyHeaders(headers) = {} THEN 0 ELSE Min(NonEmptyHeaders(headers))

C18_BackslashOnlyForXRealIp ==
    \A r \in Slots :
        req[r].pc # "idle" =>
            \A i \in 2..Len(ipHeaders) :
                LET v == req[r].headers[ipHeaders[i]]
                    stripped == IF Len(v.s) > 0 /\ v.s[1] = Backslash
                                THEN SubSeq(v.s, 2, Len(v.s)) ELSE v.s
                    expected == IF i = 2 THEN stripped ELSE v.s
                IN /\ req[r].ipSource = ipHeaders[i] =>
                         (v # Undefined /\ req[r].ip = Str(expected))
                   /\ req[r].ipSource = ipHeaders[i] <=>
                         (Selected(req[r].headers) = i /\ expected # <<>>)

\* An x-real-ip value escaped twice keeps its second backslash.
C18_Witness ==
    \E r \in Slots :
        /\ req[r].pc = "running"
        /\ req[r].headers["x-real-ip"] = Str(<<Backslash, Backslash>> \o Ip4("2"))
        /\ req[r].headers["x-client-ip"] = Str(<<Backslash>> \o Ip4("3"))
        /\ req[r].ipSource = "x-real-ip"
        /\ req[r].ip = Str(<<Backslash>> \o Ip4("2"))

\* The last header's value is used with its leading backslash, or with
\* the blanks around it.
C18_WitnessVerbatim ==
    \E r \in Slots :
        /\ req[r].pc = "running"
        /\ req[r].ipSource = "x-cluster-client-ip"
        /\ req[r].ip = Str(<<" ">> \o Ip4("7") \o <<" ">>)

\* C19: with no IP header present the extracted IP is the peer socket
\* address and the source is "connection"; in every request the source is
\* "connection" exactly when the IP is the peer socket address, and
\* otherwise it names a header that is present and whose normalized value
\* is the extracted IP.
C19_PeerFallbackAndProvenance ==
    \A r \in Slots :
        req[r].pc # "idle" =>
            /\ PresentHeaders(req[r].headers) = {} =>
                  /\ req[r].ip = req[r].remoteAddress
                  /\ req[r].ipSource = "connection"
            /\ req[r].ipSource = "connection" <=>
                  req[r].ip = req[r].remoteAddress
            /\ req[r].ipSource # "connection" =>
                  \E i \in PresentHeaders(req[r].headers) :
                      /\ req[r].ipSource = ipHeaders[i]
                      /\ req[r].ip =
                            Str(Normalized(ipHeaders[i],
                                           req[r].headers[ipHeaders[i]].s))

\* A request without any IP header from the peer 10.0.0.5.
C19_Witness ==
    \E r \in Slots :
        /\ req[r].pc = "running"
        /\ PresentHeaders(req[r].headers) = {}
        /\ req[r].remoteAddress = Str(IpPeer)
        /\ req[r].ip = Str(IpPeer)
        /\ req[r].ipSource = "connection"

\* The API answered with a status that is not 2xx.
HttpFailure(q) == q.responseOk = False
\* The API answered 2xx with a body whose status field is "fail".
ApiFailure(q) ==
    q.responseOk = True /\ q.data.t = "object" /\ q.data.s[1] = "fail"

\* C20: a non-2xx answer and a 2xx answer whose body has status "fail" are
\* failures of the geolocation call; after them, as after a timeout, the
\* geolocation field is absent and no write of geo:<ip> is issued; the
\* store never holds a failed body.
C20_FailuresLeaveNoRecord ==
    /\ \A k \in CacheKeys : store[k].present => store[k].text # Stringify(GeoFail)
    /\ \A r \in Slots :
          (\/ HttpFailure(req[r])
           \/ ApiFailure(req[r])
           \/ req[r].geoOut = Throw("Timeout")) =>
              /\ req[r].geoOut.k = "throw"
              /\ req[r].pc = "sent"
              /\ req[r].geolocation = Null
              /\ req[r].response.geolocation \in {Null, Undefined}
              /\ req[r].geoWrites = 0
              /\ req[r].geoSet = Undefined

\* The API answered 200 with status "fail": no geolocation in the
\* response, the reverse name is there.
C20_Witness ==
    \E r \in Slots :
        /\ req[r].pc = "sent"
        /\ ApiFailure(req[r])
        /\ req[r].data = GeoFail
        /\ req[r].geolocation = Null
        /\ req[r].reverseLookup = Str(HostA)
        /\ isReady

\* The API answered with a non-2xx status.
C20_WitnessHttp ==
    \E r \in Slots :
        /\ req[r].pc = "sent"
        /\ HttpFailure(req[r])
        /\ req[r].geolocation = Null
        /\ isReady

\* C21 as stated: for every user-agent string U, the names of built-in
\* object properties included, the tally entry for U is the number of
\* root-route requests handled so far whose user agent is exactly U, and a
\* string no request carried has no entry.
C21_TallyCountsExactly ==
    \A ua \in UaChoices :
        ua.t = "string" =>
            IF handled[ua] = 0 THEN user_agents[ua.s] = Missing
            ELSE TallyGet(user_agents, ua.s) = Count(handled[ua])

\* C22 as stated: under every interleaving of the requests in flight, the
\* sum of all tally counts is the number of requests that have run the
\* tally step.
C22_NoLostUpdates == TallyTotal(user_agents) = Count(HandledTotal)

\* IP texts a header may carry, texts that look like keys included.
KeyTexts == {<<>>, IpA, IpB, <<":">>, GeoKey(Str(IpA)), DnsKey(Str(IpA)),
             <<"g", "e", "o", ":">>, <<"d", "n", "s", ":">>}

HasPrefix(key, prefix) ==
    Len(key) >= Len(prefix) /\ SubSeq(key, 1, Len(prefix)) = prefix

\* In every state: no dns: key is a geo: key, for the texts above and the
\* IPs of the requests; the reverse name of a request is a text (or
\* absent) and never a geolocation record, its geolocation a record (or
\* absent) and never a reverse name.
C23_KeysDisjoint ==
    LET texts == KeyTexts \cup {req[r].ip.s : r \in Slots} IN
    /\ \A a \in texts, b \in texts :
          /\ DnsKey(Str(a)) # GeoKey(Str(b))
          /\ HasPrefix(DnsKey(Str(a)), <<"d", "n", "s", ":">>)
          /\ HasPrefix(GeoKey(Str(b)), <<"g", "e", "o", ":">>)
    /\ \A r \in Slots :
          /\ req[r].reverseLookup.t # "object"
          /\ req[r].geolocation.t # "string"

\* In every step: the text the DNS stream gets from the cache is the text
\* stored under dns:<ip>, and the write of the DNS stream changes no other
\* key; likewise for the geolocation stream and geo:<ip>.
C23_StreamStep ==
    \A r \in Slots :
        /\ (req[r].dpc = "get" /\ req'[r].dpc # "get") =>
              req'[r].dnsCached \in {Null, Str(store[DnsKey(req[r].ip)].text)}
        /\ (req[r].gpc = "get" /\ req'[r].gpc # "get") =>
              req'[r].geoCached \in {Null, Str(store[GeoKey(req[r].ip)].text)}
        /\ (req[r].dpc = "set" /\ req'[r].dpc # "set") =>
              \A k \in CacheKeys \ {DnsKey(req[r].ip)} : store'[k] = store[k]
        /\ (req[r].gpc = "set" /\ req'[r].gpc # "set") =>
              \A k \in CacheKeys \ {GeoKey(req[r].ip)} : store'[k] = store[k]

\* C23: the namespaces are disjoint: dns:<a> is never geo:<b>, the DNS
\* stream reads and writes only dns: keys and the geolocation stream only
\* geo: keys, and a reverse name is never returned as a geolocation record
\* nor a record as a reverse name.
C23_DisjointNamespaces == []C23_KeysDisjoint /\ [][C23_StreamStep]_vars

\* Both lookups of a request were answered from the cache, the reverse
\* name from dns:<ip> and the record from geo:<ip>.
C23_Witness ==
    \E r \in Slots :
        /\ req[r].pc = "sent"
        /\ req[r].dnsCached = Str(Stringify(Str(HostC)))
        /\ req[r].geoCached = Str(Stringify(GeoJP))
        /\ req[r].reverseLookup = Str(HostC)
        /\ req[r].geolocation = GeoJP
        /\ req[r].dnsCalls = 0 /\ req[r].geoCalls = 0

\* The signatures the specification lists, in lower case.
NonBrowserSignatures ==
    { <<"c", "u", "r", "l">>, <<"w", "g", "e", "t">>,
      <<"p", "y", "t", "h", "o", "n">>, <<"n", "o", "d", "e">>,
      <<"j", "a", "v", "a">>, <<"g", "o", "-", "h", "t", "t", "p">>,
      <<"p", "o", "s", "t", "m", "a", "n">>,
      <<"i", "n", "s", "o", "m", "n", "i", "a">>,
      <<"h", "t", "t", "p", "i", "e">>, <<"b", "o", "t">>,
      <<"s", "p", "i", "d", "e", "r">>, <<"c", "r", "a", "w", "l", "e", "r">> }
BrowserSignatures ==
    { <<"m", "o", "z", "i", "l", "l", "a">>, <<"c", "h", "r", "o", "m", "e">>,
      <<"s", "a", "f", "a", "r", "i">>, <<"f", "i", "r", "e", "f", "o", "x">>,
      <<"e", "d", "g", "e">>, <<"o", "p", "e", "r", "a">>,
      <<"w", "e", "b", "k", "i", "t">> }

\* word occurs in text, letter case aside.
Contains(text, word) ==
    \E start \in 0..(Len(text) - Len(word)) :
        \A j \in 1..Len(word) : Lower(text[start + j]) = word[j]

\* C24: a user agent that matches a non-browser signature is classified
\* non-browser even if it matches a browser signature as well; otherwise it
\* is classified browser exactly when it matches a browser signature; an
\* empty or absent user agent is non-browser.
C24_BrowserClassifier ==
    \A r \in Slots :
        req[r].pc # "idle" =>
            LET ua == req[r].headers["user-agent"]
                absent == ua = Undefined \/ ua = Str(<<>>)
                excluded == \E w \in NonBrowserSignatures : Contains(ua.s, w)
                browser == \E w \in BrowserSignatures : Contains(ua.s, w)
            IN req[r].isBrowser =
                  (IF absent \/ excluded THEN False
                   ELSE IF browser THEN True ELSE False)

\* "Mozilla bot" is classified non-browser, and so answered with JSON.
C24_Witness ==
    \E r \in Slots :
        /\ req[r].pc = "sent"
        /\ req[r].headers["user-agent"] = Str(MozillaBot)
        /\ req[r].isBrowser = False
        /\ req[r].response.format = "json"

\* "OPERA" and "xEdgex" are classified browser.
C24_WitnessBrowser ==
    \E r \in Slots :
        /\ req[r].pc = "sent"
        /\ req[r].headers["user-agent"] \in {Str(Opera), Str(InnerEdge)}
        /\ req[r].isBrowser = True

\* What a request computes: everything but the user-agent header, the
\* classification and the encoded response.
Computed(q) ==
    [q EXCEPT !.headers["user-agent"] = Undefined,
              !.isBrowser = Undefined,
              !.response = NoResponse]

\* C25: twin requests that differ only in their user agent extract the
\* same IP and source, are at the same awaits, have issued the same cache
\* reads and writes and resolver calls with the same results, and obtain
\* the same reverse name and geolocation record.
C25_ClassificationSelectsEncodingOnly ==
    req[1].headers["user-agent"] # req[2].headers["user-agent"] =>
        /\ Computed(req[1]) = Computed(req[2])
        /\ req[1].response.format # "none" =>
              /\ req[1].response.reverseLookup \in {req[1].reverseLookup, Undefined}
              /\ req[2].response.reverseLookup \in {req[1].reverseLookup, Undefined}
              /\ req[1].response.geolocation \in {req[1].geolocation, Undefined}
              /\ req[2].response.geolocation \in {req[1].geolocation, Undefined}

\* A command-line client and a browser were answered, one with JSON and
\* one with HTML, after the same resolver calls and cache writes, with the
\* same reverse name and record.
C25_Witness ==
    /\ req[1].pc = "sent" /\ req[2].pc = "sent"
    /\ req[1].response.format = "json" /\ req[2].response.format = "html"
    /\ req[1].dnsCalls = 1 /\ req[2].dnsCalls = 1
    /\ req[1].geoWrites = 1 /\ req[2].geoWrites = 1
    /\ req[1].response.reverseLookup = Str(HostA)
    /\ req[2].response.reverseLookup = Str(HostA)
    /\ req[1].response.geolocation = GeoSG
    /\ req[2].response.geolocation = GeoSG

\* In every state: a request that has been answered was sent the HTML
\* page if it was classified as a browser and the JSON object if not; no
\* other request has been sent anything.
C26_EncodingFollowsClass ==
    \A r \in Slots :
        /\ req[r].pc = "sent" =>
              req[r].response.format =
                  (IF req[r].isBrowser = True THEN "html" ELSE "json")
        /\ req[r].pc # "sent" => req[r].response = NoResponse
        /\ req[r].pc # "idle" => req[r].isBrowser \in {True, False}

\* In every step that brings no new request: a response that has been
\* sent stays as it is.
C26_SentOnceStep ==
    handled' = handled =>
        \A r \in Slots :
            req[r].pc = "sent" => req'[r].response = req[r].response

\* C26: the root route answers with the HTML page exactly when the user
\* agent is classified as a browser and with the JSON object otherwise, and
\* sends exactly one of the two per request.
C26_ResponseEncoding == []C26_EncodingFollowsClass /\ [][C26_SentOnceStep]_vars

\* A request without a user agent got JSON, its twin from a browser HTML,
\* both after the geolocation lookup.
C26_Witness ==
    /\ req[1].pc = "sent" /\ req[2].pc = "sent"
    /\ req[1].headers["user-agent"] = Undefined
    /\ req[1].response.format = "json"
    /\ req[2].headers["user-agent"] = Str(Mozilla)
    /\ req[2].response.format = "html"
    /\ req[1].ip = Str(IpB)
    /\ req[1].geoCalls = 1

\* In every state: a request with a resolved IP that has been answered
\* has both its DNS stream and its geolocation stream over, and a request
\* with a stream at an await has been sent nothing.
C27_BothOverWhenSent ==
    \A r \in Slots :
        /\ (Truthy(req[r].ip) /\ req[r].pc = "sent") =>
              req[r].dpc = "done" /\ req[r].gpc = "done"
        /\ (AtDnsAwait(req[r]) \/ AtGeoAwait(req[r])) =>
              (req[r].pc = "running" /\ req[r].response = NoResponse)

\* In every step: the response is sent in the step that ends the second
\* lookup, a request being sent nothing before; once it is sent, no
\* later step of that request sends again or starts a lookup.
C27_SendStep ==
    \A r \in Slots :
        /\ (req[r].pc = "running" /\ req'[r].pc = "sent") =>
              /\ req[r].response = NoResponse
              /\ req'[r].response.format \in {"html", "json"}
              /\ AtGeoAwait(req[r])
              /\ req[r].dpc = "done" /\ req'[r].gpc = "done"
        /\ (req[r].pc = "sent" /\ handled' = handled) =>
              /\ req'[r].pc = "sent"
              /\ req'[r].dnsCalls = req[r].dnsCalls
              /\ req'[r].geoCalls = req[r].geoCalls
              /\ req'[r].response.format = req[r].response.format

\* C27: a request with a resolved IP is answered exactly once, and only
\* when its DNS enrichment and its geolocation enrichment have each
\* completed or failed; no response is sent while a lookup of the request
\* is in flight.
C27_JoinBeforeResponse == []C27_BothOverWhenSent /\ [][C27_SendStep]_vars

\* A response sent after the DNS resolver named two hosts and the API
\* returned a record: both lookups are over.
C27_Witness ==
    \E r \in Slots :
        /\ req[r].pc = "sent"
        /\ req[r].dpc = "done" /\ req[r].gpc = "done"
        /\ req[r].dnsCalls = 1 /\ req[r].geoCalls = 1
        /\ req[r].response.format = "json"
        /\ req[r].response.reverseLookup = Str(HostA)
        /\ req[r].response.geolocation = GeoUS

\* C28 as stated: whatever the enrichment yields, the response to a
\* request with an IP has the same set of fields: the request's headers,
\* the time stamp, ip, reverseLookup and geolocation, the last two with or
\* without a value.
C28_SameShape ==
    \A r \in Slots :
        (req[r].pc = "sent" /\ req[r].response.format = "json"
         /\ Truthy(req[r].ip)) =>
            BodyFields(req[r].response) =
                {h \in HeaderNames : req[r].headers[h] # Undefined}
                \cup {"currentTs", "ip", "reverseLookup", "geolocation"}

\* C29: when dns.reverse returns several hostnames, the reverse name the
\* lookup returns, and the name written to the cache, is the first of the
\* list; when dns.reverse reports an error, the DNS lookup fails: no name
\* is returned and nothing is written.
C29_FirstNameWins ==
    \A r \in Slots :
        LET answer == req[r].dnsAnswer IN
        (answer # NoAnswer) =>
            IF answer.err
            THEN /\ req[r].dnsOut.k = "throw"
                 /\ req[r].dpc = "done"
                 /\ req[r].reverseLookup = Undefined
                 /\ req[r].dnsWrites = 0
            ELSE Len(answer.address) >= 1 =>
                 /\ req[r].dnsOut = Return(Str(answer.address[1]))
                 /\ req[r].dpc = "set" => req[r].dnsResult = Str(answer.address[1])
                 /\ req[r].dpc = "done" =>
                       req[r].reverseLookup = Str(answer.address[1])
                 /\ (req[r].dnsSet = True /\ req[r].clean) =>
                       store[DnsKey(req[r].ip)] =
                           Entry(Stringify(Str(answer.address[1])), CACHE_TTL_DNS)

\* dns.reverse returned a.x and b.x: a.x is in the response and in the
\* store.
C29_Witness ==
    \E r \in Slots :
        /\ req[r].pc = "sent" /\ req[r].clean
        /\ req[r].dnsAnswer = [err |-> FALSE, address |-> <<HostA, HostB>>]
        /\ req[r].response.reverseLookup = Str(HostA)
        /\ req[r].dnsSet = True
        /\ store[DnsKey(req[r].ip)] = Entry(Stringify(Str(HostA)), CACHE_TTL_DNS)

\* dns.reverse reported an error: the response has no reverse name.
C29_WitnessError ==
    \E r \in Slots :
        /\ req[r].pc = "sent"
        /\ req[r].dnsAnswer.err
        /\ req[r].response.reverseLookup = Undefined
        /\ req[r].response.geolocation = GeoSG

\* In every step in which /user-agents, /health, /alb-health-check, an
\* unmatched route or the metrics timer runs: no tally count changes, no
\* request moves (no cache command, no resolver call), the store is as it
\* was, and the key count and the sum logged by /user-agents and by the
\* timer are those of the tally at that moment (for requests whose user
\* agents name no property of Object.prototype: the number of distinct
\* keys counted and the number of requests counted).
C30_ReadOnlyStep ==
    reported' # reported =>
        /\ reported'.route \in {"/user-agents", "/health", "/alb-health-check",
                                "404", "periodic_metrics"}
        /\ user_agents' = user_agents
        /\ handled' = handled
        /\ req' = req
        /\ store' = store
        /\ reported'.route \in {"/user-agents", "periodic_metrics"} =>
              /\ reported'.unique =
                    Cardinality({key \in UaKeys : user_agents[key] # Missing})
              /\ reported'.total = TallyTotal(user_agents)
              /\ (handled[Str(Constructor)] = 0 /\ handled[Str(Proto)] = 0) =>
                    /\ reported'.total = Count(HandledTotal)
                    /\ reported'.unique =
                          Cardinality({TallyKey(ua) : ua \in
                                          {u \in UaChoices : handled[u] > 0}})

\* C30: the tally is read-only outside the root route.
C30_TallyReadOnlyElsewhere == [][C30_ReadOnlyStep]_vars

\* /user-agents reported two keys and a sum of two while a request, the
\* second, was waiting for the DNS resolver.
C30_Witness ==
    /\ reported = [route |-> "/user-agents", unique |-> 2, total |-> Count(2)]
    /\ HandledTotal = 2
    /\ req[1].pc = "running" /\ req[1].dpc = "reverse"

\* The timer reported one key and a sum of one after one request.
C30_WitnessTimer ==
    /\ reported = [route |-> "periodic_metrics", unique |-> 1, total |-> Count(1)]
    /\ HandledTotal = 1
    /\ req[1].pc = "sent"

(***************************************************************************)
(* C31: set once per miss, no invalidation                                 *)
(***************************************************************************)
\* What getFromCache returned is a miss as the cache contract has it:
\* nothing (no entry, the store not ready, the read failed) or a text that
\* cannot be deserialized.
ContractMiss(cached) == ~Truthy(cached) \/ Undeserializable(cached)

\* A request writes at most once per namespace, and only after a miss on
\* that key and a value its resolver returned.
C31_WriteAfterMiss ==
    \A r \in Slots :
        /\ req[r].dnsWrites <= 1 /\ req[r].geoWrites <= 1
        /\ req[r].dnsWrites = 1 =>
              /\ ContractMiss(req[r].dnsCached)
              /\ req[r].dnsCalls = 1
              /\ req[r].dnsOut.k = "return" /\ Truthy(req[r].dnsOut.v)
        /\ req[r].geoWrites = 1 =>
              /\ ContractMiss(req[r].geoCached)
              /\ req[r].geoCalls = 1
              /\ req[r].geoOut.k = "return" /\ Truthy(req[r].geoOut.v)

\* An entry disappears only when its TTL runs out.
C31_NoInvalidationStep ==
    \A k \in CacheKeys : (store[k].present /\ ~store'[k].present) => Expire(k)

\* C31 as stated: within one request each namespace receives at most one
\* cache write, a write to prefix:<ip> happens only after a miss on that key
\* (absent or malformed entry, or store not ready at read time) followed by
\* a successful resolver call in the same request, and an entry disappears
\* only by TTL expiry.
C31_SetOncePerMiss == []C31_WriteAfterMiss /\ [][C31_NoInvalidationStep]_vars

(***************************************************************************)
(* C32: writes of the same value by concurrent requests                    *)
(***************************************************************************)
\* The requests for ip that are in a slot, and those of them whose write
\* of the namespace the store accepted.
RequestsFor(ip) == {r \in Slots : req[r].pc # "idle" /\ req[r].ip = ip}
DnsWriters(ip) ==
    {r \in RequestsFor(ip) : req[r].dnsCalls = 1 /\ req[r].dnsSet = True}
GeoWriters(ip) ==
    {r \in RequestsFor(ip) : req[r].geoCalls = 1 /\ req[r].geoSet = True}

\* Every request handled so far is still in its slot.
NoneForgotten ==
    HandledTotal = Cardinality({r \in Slots : req[r].pc # "idle"})

\* Several requests for one address missed the cache, re-derived the same
\* value and wrote it back, and all have finished: the store holds the
\* serialization of that value, which is what the first write stored.
C32_SameValueOneEntry ==
    \A ip \in CacheIps :
        (/\ NoneForgotten
         /\ \A r \in RequestsFor(ip) : req[r].pc = "sent") =>
            /\ (/\ Cardinality(DnsWriters(ip)) >= 2
                /\ \A r1, r2 \in DnsWriters(ip) :
                      req[r1].dnsOut.v = req[r2].dnsOut.v) =>
                  \A r \in DnsWriters(ip) :
                      store[DnsKey(ip)] =
                          Entry(Stringify(req[r].dnsOut.v), CACHE_TTL_DNS)
            /\ (/\ Cardinality(GeoWriters(ip)) >= 2
                /\ \A r1, r2 \in GeoWriters(ip) :
                      req[r1].geoOut.v = req[r2].geoOut.v) =>
                  \A r \in GeoWriters(ip) :
                      store[GeoKey(ip)] =
                          Entry(Stringify(req[r].geoOut.v), CACHE_TTL_GEO)

\* An accepted write replaces the entry by the serialization of the value
\* the writing request re-derived; onto an entry that holds that value
\* already it changes nothing.
C32_RewriteStep ==
    \A r \in Slots :
        /\ (req[r].dpc = "set" /\ req'[r].dpc # "set") =>
              /\ store'[DnsKey(req[r].ip)] =
                    Entry(Stringify(req[r].dnsOut.v), CACHE_TTL_DNS)
              /\ store[DnsKey(req[r].ip)].text = Stringify(req[r].dnsOut.v) =>
                    store'[DnsKey(req[r].ip)].text =
                        store[DnsKey(req[r].ip)].text
        /\ (req[r].gpc = "set" /\ req'[r].gpc # "set") =>
              /\ store'[GeoKey(req[r].ip)] =
                    Entry(Stringify(req[r].geoOut.v), CACHE_TTL_GEO)
              /\ store[GeoKey(req[r].ip)].text = Stringify(req[r].geoOut.v) =>
                    store'[GeoKey(req[r].ip)].text =
                        store[GeoKey(req[r].ip)].text

C33_TimerEndsWithCall ==
    \A r \in Slots :
        req[r].gpc \notin {"fetch", "json"} => req[r].timer # "armed"

\* The DNS side of a request.
DnsSide(q) ==
    <<q.dpc, q.reverseLookup, q.dnsCached, q.dnsOut, q.dnsCalls, q.dnsWrites,
      q.dnsSet>>

\* The step in which the timer of request r fires aborts the call of r with
\* the timeout error and touches nothing else: not the other requests, not
\* the DNS side of r, not the store; r itself goes on to its response.
\* A timer that is not set does not fire.
C33_AbortStep ==
    \A r \in Slots :
        /\ (req[r].timer = "armed" /\ req'[r].timer = "fired") =>
              /\ \A s \in Slots \ {r} : req'[s] = req[s]
              /\ req'[r].geoOut = Throw("Timeout")
              /\ DnsSide(req'[r]) = DnsSide(req[r])
              /\ req'[r].pc = "sent"
              /\ req'[r].reverseLookup = req'[r].response.reverseLookup
              /\ store' = store
        /\ req[r].timer \in {"cleared", "fired"} => req'[r].timer # "fired"
                                                    \/ req'[r].timer = req[r].timer

\* C33: each geolocation call owns its deadline timer and abort signal; the
\* expiry of one call's deadline aborts only that call, never the call of
\* another request, never the DNS lookup and never the request itself, and
\* once a call has completed its timer is cancelled and cannot fire later.
C33_PerCallCancellation == []C33_TimerEndsWithCall /\ [][C33_AbortStep]_vars

\* One request was answered after its geolocation call timed out, with the
\* reverse name it had obtained, while the call of another request is
\* still pending with its timer set.
C33_Witness ==
    \E r, s \in Slots :
        /\ r # s
        /\ req[r].pc = "sent" /\ req[r].geoOut = Throw("Timeout")
        /\ req[r].timer = "fired" /\ Truthy(req[r].response.reverseLookup)
        /\ req[s].pc = "running" /\ req[s].gpc = "fetch"
        /\ req[s].timer = "armed"

(***************************************************************************)
(* C34: what the store holds under the keys of an address                  *)
(***************************************************************************)
\* The non-empty values the resolvers return for ip.
DnsValuesOf(ip) ==
    {reverseDns(a).v : a \in {b \in DnsBackend(ip) :
                                 /\ reverseDns(b).k = "return"
                                 /\ Truthy(reverseDns(b).v)}}
GeoValuesOf(ip) ==
    {JsonCompletion(a).v : a \in {b \in GeoBackend(ip) :
                                     /\ JsonCompletion(b).k = "return"
                                     /\ Truthy(JsonCompletion(b).v)}}

\* C34: in every reachable state, for every IP, a value the program stored
\* under dns:<ip> or geo:<ip> is the serialization of a non-empty value the
\* corresponding resolver returned for that IP, and what a request obtains
\* for its IP, from the store or from the resolver, is such a value:
\* requests for different IPs never get one IP's result stored under, or
\* returned for, the other's key.
C34_CacheContentIntegrity ==
    /\ \A ip \in CacheIps :
          /\ store[DnsKey(ip)].present =>
                \E v \in DnsValuesOf(ip) :
                    store[DnsKey(ip)] = Entry(Stringify(v), CACHE_TTL_DNS)
          /\ store[GeoKey(ip)].present =>
                \E v \in GeoValuesOf(ip) :
                    store[GeoKey(ip)] = Entry(Stringify(v), CACHE_TTL_GEO)
    /\ \A r \in Slots :
          /\ Truthy(req[r].reverseLookup) =>
                req[r].reverseLookup \in DnsValuesOf(req[r].ip)
          /\ Truthy(req[r].geolocation) =>
                req[r].geolocation \in GeoValuesOf(req[r].ip)
          /\ Truthy(req[r].dnsCached) =>
                \E v \in DnsValuesOf(req[r].ip) :
                    req[r].dnsCached = Str(Stringify(v))
          /\ Truthy(req[r].geoCached) =>
                \E v \in GeoValuesOf(req[r].ip) :
                    req[r].geoCached = Str(Stringify(v))

\* Requests for the two addresses were in flight together and each wrote
\* its two entries; the store holds the four of them.
C34_Witness ==
    \E r, s \in Slots :
        /\ req[r].pc = "sent" /\ req[r].ip = Str(IpA)
        /\ req[s].pc = "running" /\ req[s].ip = Str(IpB)
        /\ req[r].dnsSet = True /\ req[r].geoSet = True
        /\ req[s].dnsSet = True /\ req[s].gpc = "set"
        /\ store[DnsKey(Str(IpA))].present /\ store[GeoKey(Str(IpA))].present
        /\ store[DnsKey(Str(IpB))] = Entry(Stringify(Str(HostB)), CACHE_TTL_DNS)

(***************************************************************************)
(* C35: no negative caching                                                *)
(***************************************************************************)
\* The resolver of the request was called and failed or returned nothing.
DnsFailedOrEmpty(q) ==
    \/ q.dnsOut.k = "throw"
    \/ q.dnsOut.k = "return" /\ ~Truthy(q.dnsOut.v)
GeoFailedOrEmpty(q) ==
    \/ q.geoOut.k = "throw"
    \/ q.geoOut.k = "return" /\ ~Truthy(q.geoOut.v)

\* A lookup whose resolver failed or returned nothing calls setCache not at
\* all and writes nothing; no entry written by the program (its TTL is
\* CACHE_TTL) holds an empty value; and a lookup that found no usable entry
\* has called its resolver.
C35_NothingWrittenOnFailure ==
    /\ \A r \in Slots :
          /\ DnsFailedOrEmpty(req[r]) =>
                /\ req[r].dnsWrites = 0 /\ req[r].dnsSet = Undefined
                /\ req[r].dpc = "done"
          /\ GeoFailedOrEmpty(req[r]) =>
                /\ req[r].geoWrites = 0 /\ req[r].geoSet = Undefined
                /\ req[r].gpc = "done"
          /\ (req[r].dnsCached # Undefined /\ ~DnsCacheHit(req[r].dnsCached))
                => req[r].dnsCalls = 1
          /\ (req[r].geoCached # Undefined /\ ~GeoCacheHit(req[r].geoCached))
                => req[r].geoCalls = 1
    /\ \A k \in CacheKeys :
          (store[k].present /\ store[k].ttl # 0) =>
              /\ Parse(store[k].text).ok
              /\ Truthy(Parse(store[k].text).v)

\* The step in which a resolver call fails or returns nothing leaves the
\* store as it is, so that the next request for the IP finds what this one
\* found.
C35_FailureStep ==
    \A r \in Slots :
        /\ (req[r].dnsOut = NoCall /\ DnsFailedOrEmpty(req'[r])) =>
              store' = store
        /\ (req[r].geoOut = NoCall /\ GeoFailedOrEmpty(req'[r])) =>
              store' = store

\* C35: a resolver outcome that is a failure or empty (DNS error, empty
\* name list, geolocation timeout, non-2xx status, status "fail") never
\* causes a cache write, so every later request for that IP invokes the
\* resolver again until one call succeeds.
C35_NoNegativeCaching ==
    []C35_NothingWrittenOnFailure /\ [][C35_FailureStep]_vars

\* With the store ready and nothing stored for the IP, the reverse lookup
\* returned an empty list and the API answered with status "fail"; the
\* request was answered and the store still holds nothing for the IP.
C35_Witness ==
    \E r \in Slots :
        /\ req[r].pc = "sent" /\ req[r].clean /\ Truthy(req[r].ip)
        /\ req[r].dnsCached = Null /\ req[r].geoCached = Null
        /\ req[r].dnsOut = Return(Undefined)
        /\ req[r].geoOut = Throw("Error") /\ req[r].data = GeoFail
        /\ ~store[DnsKey(req[r].ip)].present
        /\ ~store[GeoKey(req[r].ip)].present

(***************************************************************************)
(* C36: where the values a lookup returns come from                        *)
(***************************************************************************)
\* What the lookups of a request that are over returned: the parsed entry
\* on a hit, else the resolver's value; a lookup that threw returned
\* nothing and the handler's variable keeps its initial value.  No value is
\* the text read from the store, and none is an error.
C36_ReturnedFromEntryOrResolver ==
    \A r \in Slots :
        /\ (req[r].dpc = "done" /\ req[r].dnsCached # Undefined) =>
              /\ req[r].reverseLookup =
                    IF DnsCacheHit(req[r].dnsCached)
                    THEN Parse(req[r].dnsCached.s).v
                    ELSE IF req[r].dnsOut.k = "return" THEN req[r].dnsOut.v
                    ELSE Undefined
              /\ Truthy(req[r].reverseLookup) =>
                    req[r].reverseLookup # req[r].dnsCached
              /\ req[r].reverseLookup.t \in {"undefined", "null", "string"}
        /\ (req[r].gpc = "done" /\ req[r].geoCached # Undefined) =>
              /\ req[r].geolocation =
                    IF GeoCacheHit(req[r].geoCached)
                    THEN Parse(req[r].geoCached.s).v
                    ELSE IF req[r].geoOut.k = "return" THEN req[r].geoOut.v
                    ELSE Null
              /\ req[r].geolocation.t \in {"null", "object"}

\* What getFromCache hands to a lookup is nothing, or the text the store
\* held under the key of the request's IP when the GET completed.
C36_ReadStep ==
    \A r \in Slots :
        /\ (req[r].dpc = "get" /\ req'[r].dpc # "get") =>
              \/ req'[r].dnsCached = Null
              \/ /\ store[DnsKey(req[r].ip)].present
                 /\ req'[r].dnsCached = Str(store[DnsKey(req[r].ip)].text)
        /\ (req[r].gpc = "get" /\ req'[r].gpc # "get") =>
              \/ req'[r].geoCached = Null
              \/ /\ store[GeoKey(req[r].ip)].present
                 /\ req'[r].geoCached = Str(store[GeoKey(req[r].ip)].text)

\* C36: under any sequence of store readiness changes, store errors and
\* entry expiries during a request, the value a cache-aside lookup returns
\* for an IP is either the cleanly deserialized content stored under that
\* IP's key at read time or the value the resolver returned in this same
\* request; never a raw serialized string, an error object or a value
\* belonging to another key.
C36_OriginOfReturnedValues ==
    []C36_ReturnedFromEntryOrResolver /\ [][C36_ReadStep]_vars

\* The store failed during the request: the reverse name came out of the
\* entry read; the read of the geolocation entry returned nothing, so the
\* record came from the resolver, and the entry is still in the store.
C36_Witness ==
    \E r \in Slots :
        /\ req[r].pc = "sent" /\ ~req[r].clean
        /\ req[r].dnsCached = Str(Stringify(Str(HostC)))
        /\ req[r].reverseLookup = Str(HostC) /\ req[r].dnsCalls = 0
        /\ req[r].geoCached = Null /\ req[r].geoCalls = 1
        /\ req[r].geolocation = GeoUS
        /\ store[GeoKey(req[r].ip)] = Entry(Stringify(GeoJP), 0)

(***************************************************************************)
(* C38, C39: request headers named like fields of the response             *)
(***************************************************************************)
\* The value the JSON body holds under a field name: the computed field,
\* the diagnostic object, or the header that is still a property.
\* Undefined stands for a field the body does not have.
BodyValue(response, field) ==
    CASE field = "ip" -> response.ip
      [] field = "reverseLookup" -> response.reverseLookup
      [] field = "geolocation" -> response.geolocation
      [] field = "currentTs" -> response.currentTs
      [] field = "debug" /\ response.debug # NoResponse.debug -> response.debug
      [] OTHER -> response.headers[field]

\* C38: in every JSON response the fields ip, reverseLookup, geolocation
\* and currentTs hold the values the pipeline computed, whatever the request
\* carries under the header names ip, reverselookup, geolocation or
\* currentts; an echoed header never replaces a computed field.
C38_ComputedFieldsWin ==
    \A r \in Slots :
        (req[r].pc = "sent" /\ req[r].response.format = "json") =>
            /\ BodyValue(req[r].response, "ip") =
                  ExtractIp(req[r].headers, req[r].remoteAddress).ip
            /\ BodyValue(req[r].response, "reverseLookup") =
                  (IF Truthy(req[r].ip) THEN DnsStreamValue(req[r])
                   ELSE Undefined)
            /\ BodyValue(req[r].response, "geolocation") =
                  (IF Truthy(req[r].ip) THEN GeoStreamValue(req[r])
                   ELSE Null)
            /\ BodyValue(req[r].response, "currentTs") = Date
            /\ BodyValue(req[r].response, "reverselookup") =
                  req[r].headers["reverselookup"]
            /\ BodyValue(req[r].response, "currentts") =
                  req[r].headers["currentts"]

\* A command-line client sent headers under all four names; the body holds
\* the address taken from x-forwarded-for, the name and the record the
\* resolvers returned.
C38_Witness ==
    \E r \in Slots :
        /\ req[r].pc = "sent" /\ req[r].response.format = "json"
        /\ req[r].headers["ip"] = Str(IpB)
        /\ req[r].headers["geolocation"] = Str(Other)
        /\ req[r].headers["reverselookup"] = Str(HostC)
        /\ req[r].headers["currentts"] = Str(Other)
        /\ BodyValue(req[r].response, "ip") = Str(IpA)
        /\ BodyValue(req[r].response, "reverseLookup") = Str(HostA)
        /\ BodyValue(req[r].response, "geolocation") = GeoSG

\* C39 as stated, for the JSON responses: the body has a debug field if
\* and only if the client IP could not be determined, and the field is the
\* handler's diagnostic object, never a value the client sent.
C39_DebugMarkerExact ==
    \A r \in Slots :
        (req[r].pc = "sent" /\ req[r].response.format = "json") =>
            /\ "debug" \in BodyFields(req[r].response) <=> ~Truthy(req[r].ip)
            /\ "debug" \in BodyFields(req[r].response) =>
                  BodyValue(req[r].response, "debug") = Diagnostic(req[r])

(***************************************************************************)
(* Liveness.  The runtime fires a timer that is set.  The store and the    *)
(* geolocation API are taken to answer every command and every call sent   *)
(* to them; nothing is assumed of the DNS backend, for which the code sets *)
(* no deadline.                                                            *)
(***************************************************************************)
SpecLive ==
    /\ Init
    /\ [][NextSeq]_vars
    /\ WF_vars(DeadlineElapse(1))
    /\ WF_vars(\E o \in CacheOutcomes : DnsGetReply(1, o))
    /\ WF_vars(\E o \in CacheOutcomes : DnsSetReply(1, o))
    /\ WF_vars(\E o \in CacheOutcomes : GeoGetReply(1, o))
    /\ WF_vars(\E o \in CacheOutcomes : GeoSetReply(1, o))
    /\ WF_vars(\E o \in FetchOutcomes : FetchReply(1, o))
    /\ WF_vars(\E b \in JsonBodies : JsonReply(1, b))

\* C9 as stated: every request to the root route is eventually answered,
\* whatever the backends do.
C9_EveryRequestAnswered ==
    \A r \in Slots : (req[r].pc = "running") ~> (req[r].pc = "sent")

(***************************************************************************)
(* Every backend answers: the store every command, the DNS resolver every *)
(* lookup, the geolocation API every call.  The store holds nothing when  *)
(* the process starts.                                                     *)
(***************************************************************************)
SpecFair ==
    /\ InitExtract
    /\ [][NextSeq]_vars
    /\ WF_vars(DeadlineElapse(1))
    /\ WF_vars(\E o \in CacheOutcomes : DnsGetReply(1, o))
    /\ WF_vars(\E a \in DnsAnswers : DnsReply(1, a))
    /\ WF_vars(\E o \in CacheOutcomes : DnsSetReply(1, o))
    /\ WF_vars(\E o \in CacheOutcomes : GeoGetReply(1, o))
    /\ WF_vars(\E o \in CacheOutcomes : GeoSetReply(1, o))
    /\ WF_vars(\E o \in FetchOutcomes : FetchReply(1, o))
    /\ WF_vars(\E b \in JsonBodies : JsonReply(1, b))

\* The counters of a request never pass one per namespace.
C37_AtMostOnce ==
    \A r \in Slots :
        /\ req[r].dnsCalls <= 1 /\ req[r].geoCalls <= 1
        /\ req[r].dnsWrites <= 1 /\ req[r].geoWrites <= 1

\* A stream comes to an await only from an earlier one: the cache read is
\* entered from the start of the stream, the resolver call from the start
\* or the read, the write from the resolver call, and no stream leaves
\* "done" while the request lasts.
C37_ForwardStep ==
    \A r \in Slots :
        \/ req[r].pc # "running"
        \/ /\ (req'[r].dpc = "get" /\ req[r].dpc # "get") => req[r].dpc = "idle"
           /\ (req'[r].dpc = "reverse" /\ req[r].dpc # "reverse") =>
                 req[r].dpc \in {"idle", "get"}
           /\ (req'[r].dpc = "set" /\ req[r].dpc # "set") =>
                 req[r].dpc = "reverse"
           /\ req[r].dpc = "done" => req'[r].dpc = "done"
           /\ (req'[r].gpc = "get" /\ req[r].gpc # "get") => req[r].gpc = "idle"
           /\ (req'[r].gpc = "fetch" /\ req[r].gpc # "fetch") =>
                 req[r].gpc \in {"idle", "get"}
           /\ (req'[r].gpc = "json" /\ req[r].gpc # "json") =>
                 req[r].gpc = "fetch"
           /\ (req'[r].gpc = "set" /\ req[r].gpc # "set") =>
                 req[r].gpc \in {"fetch", "json"}
           /\ req[r].gpc = "done" => req'[r].gpc = "done"

\* C37: if every cache command, every DNS callback and every HTTP call
\* eventually completes or fails, every request to the root route
\* eventually sends its response, after at most one cache read, one
\* resolver call and one cache write per namespace.
C37_TerminationUnderFairness ==
    /\ \A r \in Slots : (req[r].pc = "running") ~> (req[r].pc = "sent")
    /\ []C37_AtMostOnce
    /\ [][C37_ForwardStep]_vars

\* A request was answered after one read, one resolver call and one write
\* in each namespace.
C37_Witness ==
    \E r \in Slots :
        /\ req[r].pc = "sent"
        /\ req[r].dnsCached = Null /\ req[r].geoCached = Null
        /\ req[r].dnsCalls = 1 /\ req[r].geoCalls = 1
        /\ req[r].dnsWrites = 1 /\ req[r].geoWrites = 1
        /\ req[r].dnsSet = True /\ req[r].geoSet = True

=============================================================================
